---------------------------- MODULE Spec2Model ----------------------------
(***************************************************************************)
(* A model of svndumpmultitool: the path filter (util.PathFilter), the     *)
(* action flattener (Filter._FlattenMultipleActions) and the revision      *)
(* pipeline (Filter.Filter, Filter._FilterRev, Filter._FilterRecord,       *)
(* Record.Write).                                                          *)
(*                                                                         *)
(* Four specifications share the module:                                   *)
(*   SpecPath     a PathFilter is constructed and CheckPath is called;     *)
(*   SpecFlatten  one call of _FlattenMultipleActions, one Flatten per     *)
(*                step;                                                    *)
(*   Spec         Filter.Filter reading a dump stream revision by          *)
(*                revision and writing the filtered stream, the dump      *)
(*                holding plain add, change and delete records;           *)
(*   SpecCopy     the same machine on a dump that holds copies and         *)
(*                svn:externals, with a repository behind it.              *)
(***************************************************************************)
EXTENDS Integers, Sequences, FiniteSets, TLC

VARIABLES
  pf_includes,   \* PathFilter._includes: a list of patterns (lists of segment regexps)
  pf_path,       \* the argument of the last CheckPath call (its '/'-separated components)
  pf_result,     \* what that call returned
  pf_called,     \* whether CheckPath has been called yet
  flat,          \* one _FlattenMultipleActions call: its Records, the contents
                 \* list, the per-path lists, the loop's position and outcome
  flat_in,       \* the contents list that call was given
  opts,          \* the attributes Filter.__init__ stores (the options)
  revmap,        \* Filter.revmap: None, or the dict filled while filtering
  input_nodes,   \* the node records the input stream's revisions are made of
  input_revnos,  \* the Revision-number values the stream's headers may carry
  pc,            \* where Filter.Filter is: "prologue", "revs", "done", "failed"
  error,         \* the exception that ended Filter.Filter, if one did
  repo_answers,  \* what the repository may answer when it is asked
  prologue_left, \* how many records of the dump-file header are still to come
  revhdr,        \* Filter.Filter's revhdr: the header of the revision at hand
  revs_left,     \* how many more revision headers input_stream may hold
  recs_left,     \* how many more node records input_stream may hold
  current_output_rev,  \* Filter.Filter's local of that name
  out_revs,      \* how many revisions have been written
  read_any,      \* whether ReadRecord has returned a record yet
  rev_in,        \* the header of the revision the last iteration processed
  contents_in,   \* the records read for that revision
  filtered,      \* what _FilterRev returned for it
  written,       \* what the last step wrote to output_stream, as records
  diff_old,      \* externals.Diff: its argument old, a dict of descriptions
  diff_new,      \* its argument new
  diff_peg,      \* its argument include_peg
  diff_out,      \* the lists added, changed and deleted it returned
  diff_called,   \* whether it has been called yet
  pp_text,       \* _ParseProps: its argument proptext, as its characters
  pp_kind,       \* how that block is malformed, if it is
  pp_out,        \* what the call returned or raised
  pp_called,     \* whether it has been called yet
  fe_url,        \* _FindExternalPath: its argument url, as its characters
  fe_map,        \* its argument externals_map, in the order of iteration
  fe_out,        \* what the call returned or raised
  fe_called,     \* whether it has been called yet
  gr_arg,        \* svndumpgrab: args.revisions, as its parts
  gr_input,      \* the records of stdin
  gr_pos,        \* how many of them ReadRecord has returned
  gr_revnum,     \* main's local revnum
  gr_action_num, \* main's local rev_action_num
  gr_out,        \* the records written to stdout
  gr_pc,         \* where main is: in its loop, or past it
  fr_opts,       \* _FilterRecord: the filter's includes and externals map
  fr_record,     \* its argument record
  fr_repo,       \* what the repository answers
  fr_out,        \* the list it returned
  fr_called      \* whether it has been called yet

pathVars == <<pf_includes, pf_path, pf_result, pf_called>>
flatVars == <<flat, flat_in>>
filterVars == <<opts, revmap, input_nodes, input_revnos, repo_answers, pc, error,
                prologue_left, revhdr, revs_left,
                recs_left, read_any,
                current_output_rev, out_revs, rev_in, contents_in, filtered,
                written>>

diffVars == <<diff_old, diff_new, diff_peg, diff_out, diff_called>>
\* The variables of the machines that stand beside the filter.
propsVars == <<pp_text, pp_kind, pp_out, pp_called>>
urlVars == <<fe_url, fe_map, fe_out, fe_called>>
grabVars == <<gr_arg, gr_input, gr_pos, gr_revnum, gr_action_num, gr_out, gr_pc>>
recordVars == <<fr_opts, fr_record, fr_repo, fr_out, fr_called>>
otherVars == <<diffVars, propsVars, urlVars, grabVars, recordVars>>

---------------------------------------------------------------------------
(* Bounds of the model.                                                    *)

\* Longest include list a PathFilter is constructed with.
MaxPats == 2
\* Most '/'-separated components of a path handed to CheckPath.
MaxSegs == 2
\* Most Records in the list handed to _FlattenMultipleActions (SpecFlatten).
MaxFlat == 3
\* Most revisions, and most node records in all, in the input stream of Spec.
MaxRevs == 2
MaxRecs == 2
\* The same for the input stream of SpecCopy.
MaxCopyRevs == 1
MaxCopyRecs == 2
\* Most destination paths in the dicts handed to externals.Diff.
MaxExts == 1
\* Most entries of a property block handed to _ParseProps.
MaxProps == 2
\* Most characters of a URL and most entries of an externals map handed to
\* _FindExternalPath.
MaxUrl == 4
MaxMap == 2
\* Most records of an input of svndumpgrab and its greatest revision number.
MaxGrabLen == 5
MaxGrabRev == 2

---------------------------------------------------------------------------
(* Generic helpers.                                                        *)

Min(a, b) == IF a < b THEN a ELSE b

\* All sequences over S of length 0..n.
SeqsUpTo(S, n) == UNION {[1..k -> S] : k \in 0..n}

\* s without its i-th element.
RemoveAt(s, i) == SubSeq(s, 1, i - 1) \o SubSeq(s, i + 1, Len(s))

\* s with x inserted so that it becomes the i-th element.
InsertAt(s, i, x) == SubSeq(s, 1, i - 1) \o <<x>> \o SubSeq(s, i, Len(s))

---------------------------------------------------------------------------
(* util.PathFilter                                                         *)

\* The three verdicts (class attributes of PathFilter).
NO == 0
PARENT == 1
YES == 2

\* A segment regexp, compiled as \A...\Z and matched against one whole path
\* component, is modelled by the set of components it matches.
RegexA == {"a"}              \* the literal  a
RegexB == {"b"}              \* the literal  b
RegexAny == {"a", "b", ".."} \* .*  (matches every component)

\* The include patterns a PathFilter is built from, each already split on '/'.
Patterns ==
  { <<RegexA>>, <<RegexB>>, <<RegexAny>>,
    <<RegexA, RegexB>>, <<RegexA, RegexAny>>, <<RegexAny, RegexA>>,
    <<RegexB, RegexA>>, <<RegexA, RegexB, RegexA>> }

PatternLists == SeqsUpTo(Patterns, MaxPats)

\* Components of the paths handed to CheckPath ('.' and '..' are what
\* os.path.normpath rewrites; the paths are relative, as Node-paths are).
Comps == {"a", "b", ".", ".."}
RawPaths == SeqsUpTo(Comps, MaxSegs)

\* os.path.normpath on a relative path followed by
\* filter(None, path.split('/')): '.' components vanish, '..' removes the
\* component before it unless there is none or it is itself '..'.
RECURSIVE NormLoop(_, _, _)
NormLoop(comps, i, new) ==
  IF i > Len(comps) THEN new
  ELSE LET c == comps[i] IN
       IF c \in {"", "."} THEN NormLoop(comps, i + 1, new)
       ELSE IF c # ".." \/ new = <<>> \/ new[Len(new)] = ".."
            THEN NormLoop(comps, i + 1, Append(new, c))
            ELSE NormLoop(comps, i + 1, SubSeq(new, 1, Len(new) - 1))

Parts(path) == NormLoop(path, 1, <<>>)

\* for part, regex in zip(parts, include): if not regex.match(part): ...
MatchMe(include, parts) ==
  \A i \in 1..Min(Len(parts), Len(include)) : parts[i] \in include[i]

\* The loop over self._includes, with its running result.
RECURSIVE CheckLoop(_, _, _, _)
CheckLoop(includes, parts, i, result) ==
  IF i > Len(includes) THEN result
  ELSE IF MatchMe(includes[i], parts)
       THEN IF Len(parts) >= Len(includes[i])
            THEN YES                                      \* break
            ELSE CheckLoop(includes, parts, i + 1, PARENT)
       ELSE CheckLoop(includes, parts, i + 1, result)

\* A plausible slip: the first pattern that matches decides, a partial match
\* too (the loop stops at PARENT instead of looking for a YES).
CheckPathFirstMatch(includes, path) ==
  IF includes = <<>> THEN YES
  ELSE LET parts == Parts(path)
           hits == {i \in 1..Len(includes) : MatchMe(includes[i], parts)}
       IN IF hits = {} THEN NO
          ELSE LET i == CHOOSE j \in hits : \A k \in hits : j <= k
               IN IF Len(parts) >= Len(includes[i]) THEN YES ELSE PARENT

CheckPath(includes, path) ==
  IF includes = <<>> THEN YES
  ELSE CheckLoop(includes, Parts(path), 1, NO)

IsIncluded(includes, path) == CheckPath(includes, path) = YES
IsParentOfIncluded(includes, path) == CheckPath(includes, path) = PARENT
IsExcluded(includes, path) == CheckPath(includes, path) = NO


---------------------------------------------------------------------------
(* svndump.Record                                                          *)

\* Record.source: where a Record came from.
DUMP == "DUMP"            \* read from the dump file being filtered
COPY == "COPY"            \* created to dereference a copy
EXTERNALS == "EXTERNALS"  \* created to internalize an external

\* A header that is not in Record.headers, and a text that is None.
Absent == "absent"
None == "None"
\* The value None of a property: the property is deleted (a 'D' entry).
Tomb == "<deleted>"
\* A properties block without entries.
NoEntries == [n \in {} |-> Tomb]

\* A length header that is not in Record.headers.
NoLen == -1
\* The Node-path of a Record that has none (a revision header, the dump-file
\* header).
NoPath == <<"-none-">>

\* The paths of the model: with the include pattern a/b, pA is a PARENT,
\* pAB is included and pB is excluded.
pRoot == <<>>
pA == <<"a">>
pB == <<"b">>
pAB == <<"a", "b">>
pABA == <<"a", "b", "a">>

\* The MD5 and SHA1 digests of a text, as hex strings.
Md5(text) == CASE text = "t1" -> "md5-t1" [] text = "t2" -> "md5-t2"
Sha1(text) == CASE text = "t1" -> "sha1-t1" [] text = "t2" -> "sha1-t2"
                  [] OTHER -> "md5-other"

\* Record.__init__(path, action, kind, source): the three common headers,
\* no properties block, no text.  A header the Record lacks is Absent (NoLen
\* for the three length headers); hasprops tells a properties block that is
\* None from one without entries; hascopy stands for the two Node-copyfrom
\* headers, hasrev for Revision-number; misc is the one header of a record
\* of the dump-file header.
Record(path, action, kind, source) ==
  [ path |-> path, action |-> action, kind |-> kind, source |-> source,
    hasprops |-> FALSE, props |-> NoEntries, text |-> None,
    hascopy |-> FALSE, cfpath |-> pRoot, cfrev |-> 0,
    hasrev |-> FALSE, revno |-> 0,
    tdelta |-> Absent, pdelta |-> Absent,
    md5 |-> Absent, sha1 |-> Absent, csmd5 |-> Absent, cssha1 |-> Absent,
    pcl |-> NoLen, tcl |-> NoLen, cl |-> NoLen, misc |-> Absent ]

\* Record.__eq__: headers, props and text are compared, source is not.
Eq(r1, r2) == [r1 EXCEPT !.source = DUMP] = [r2 EXCEPT !.source = DUMP]

\* Record.SetProperty
SetProperty(r, key, val) ==
  [r EXCEPT !.hasprops = TRUE,
            !.props = [n \in DOMAIN r.props \cup {key} |->
                         IF n = key THEN val ELSE r.props[n]]]

\* A plausible slip: a property marked as deleted is left in place.
DeletePropertyKeepTomb(r, key) ==
  IF r.hasprops /\ key \in DOMAIN r.props /\ r.props[key] # Tomb
  THEN [r EXCEPT !.props = [n \in DOMAIN r.props \ {key} |-> r.props[n]]]
  ELSE r

\* Record.DeleteProperty: if self.props and key in self.props: del ...
DeleteProperty(r, key) ==
  IF r.hasprops /\ key \in DOMAIN r.props
  THEN [r EXCEPT !.props = [n \in DOMAIN r.props \ {key} |-> r.props[n]]]
  ELSE r

---------------------------------------------------------------------------
(* Record.Write                                                            *)

\* The property names of the model, in the order a properties block lists
\* them.
PropOrder == <<"p", "q", "svn:externals", "svn:log">>

\* len(text)
TextLen(text) == IF text = None THEN 0 ELSE 2

\* One entry of the property block: 'D len / key' for a property whose value
\* is None, 'K len / key / V len / value' otherwise (one element per line).
PropEntry(props, key) ==
  IF props[key] = Tomb THEN <<"D", key>>
  ELSE <<"K", key, "V", props[key]>>

RECURSIVE PropLines(_, _)
PropLines(props, keys) ==
  IF keys = <<>> THEN <<>>
  ELSE PropEntry(props, Head(keys)) \o PropLines(props, Tail(keys))

\* Record._GeneratePropText: empty for props None, else the entries and the
\* PROPS-END line.  The text is kept as its lines; its length is their number.
GeneratePropText(r) ==
  IF ~r.hasprops THEN <<>>
  ELSE LET InBlock(k) == k \in DOMAIN r.props
       IN PropLines(r.props, SelectSeq(PropOrder, InBlock)) \o <<"PROPS-END">>

\* Filter.revmap: None (given = FALSE) or a dict.
NoMap == [r \in {} |-> 0]
RevmapNone == [given |-> FALSE, map |-> NoMap]
RevmapEmpty == [given |-> TRUE, map |-> NoMap]

\* "if revmap:" in _FixHeaders: a dict that is not None and not empty.
Remapping(rm) == rm.given /\ DOMAIN rm.map # {}

\* revmap[old_rev] raises KeyError for a revision the dict does not hold.
RemapFails(r, rm) ==
  /\ Remapping(rm)
  /\ \/ r.hasrev /\ r.revno \notin DOMAIN rm.map
     \/ r.hascopy /\ r.cfrev \notin DOMAIN rm.map

\* A plausible slip: Content-length counts the property block only.
FixHeadersPropsOnly(r, proptext, rm) ==
  LET a == [r EXCEPT !.pcl = IF proptext # <<>> THEN Len(proptext) ELSE NoLen]
      b == IF a.text = None
           THEN [a EXCEPT !.tcl = NoLen, !.md5 = Absent, !.sha1 = Absent,
                          !.tdelta = Absent]
           ELSE [a EXCEPT !.tcl = TextLen(a.text)]
  IN [b EXCEPT !.cl = IF proptext = <<>> THEN NoLen ELSE Len(proptext)]

\* Record._FixHeaders, for a Record on which RemapFails is false.
FixHeaders(r, proptext, rm) ==
  LET a == [r EXCEPT !.pcl = IF proptext # <<>> THEN Len(proptext) ELSE NoLen]
      b == IF a.text = None
           THEN [a EXCEPT !.tcl = NoLen, !.md5 = Absent, !.sha1 = Absent,
                          !.tdelta = Absent]
           ELSE [a EXCEPT !.tcl = TextLen(a.text),
                          !.md5 = IF a.md5 = Absent /\ a.tdelta # "true"
                                  THEN Md5(a.text) ELSE a.md5]
      c == IF proptext = <<>> /\ b.text = None
           THEN [b EXCEPT !.cl = NoLen]
           ELSE [b EXCEPT !.cl = Len(proptext) + TextLen(b.text)]
  IN IF ~Remapping(rm) THEN c
     ELSE [c EXCEPT !.revno = IF c.hasrev THEN rm.map[c.revno] ELSE c.revno,
                    !.cfrev = IF c.hascopy THEN rm.map[c.cfrev] ELSE c.cfrev]

\* Record.Write: what reaches the stream is the Record with its headers
\* fixed, its property block and its text.
Write(r, rm) == FixHeaders(r, GeneratePropText(r), rm)

\* Writing a list of Records in turn: those written before the first one
\* whose Write raises, and whether one did.
RECURSIVE WriteAll(_, _)
WriteAll(records, rm) ==
  IF records = <<>> THEN [out |-> <<>>, failed |-> FALSE]
  ELSE IF RemapFails(Head(records), rm) THEN [out |-> <<>>, failed |-> TRUE]
  ELSE LET rest == WriteAll(Tail(records), rm)
       IN [out |-> <<Write(Head(records), rm)>> \o rest.out,
           failed |-> rest.failed]

\* A Record as ReadRecord returns it from a stream some Write produced.
ReadRecord(r) == Write(r, RevmapNone)

---------------------------------------------------------------------------
(* Filter._FlattenMultipleActions and Filter._ActionPairFlattener          *)
(*                                                                         *)
(* The state of one call is a record st:                                   *)
(*   objs      the Record objects, by identity (their index);              *)
(*   contents  the revision's list, as identities;                         *)
(*   groups    paths[path]: per Node-path, the list of its Records;        *)
(*   cur       the path whose while loop is running (NoCur: none yet);     *)
(*   status    Running, Returned or the exception raised;                  *)
(*   last      the helper the last Flatten dispatched to;                  *)
(*   moved     the paths MoveDeleteToBeforeAdd has reordered.              *)

Running == "running"
Returned == "returned"
UnsupportedActionPair == "UnsupportedActionPair"
ValueError == "ValueError"
NoCur == <<"-">>
NoHelper == "-"

\* The positions of list whose object equals (Record.__eq__) object x.
EqualAt(objs, list, x) == {i \in 1..Len(list) : Eq(objs[list[i]], objs[x])}

First(S) == CHOOSE i \in S : \A j \in S : i <= j

\* list.index(x): the first position holding an object equal to x.
ListIndex(objs, list, x) == First(EqualAt(objs, list, x))

\* list.remove(x): the first object equal to x is removed.
ListRemove(objs, list, x) == RemoveAt(list, ListIndex(objs, list, x))

\* The groups built by the first loop: for record in contents:
\* paths[record.headers['Node-path']].append(record)
GroupsOf(objs) ==
  [p \in {objs[i].path : i \in 1..Len(objs)} |->
     LET Pick(i) == objs[i].path = p
     IN SelectSeq([i \in 1..Len(objs) |-> i], Pick)]

\* The state when the second loop starts.
FlatStart(records) ==
  [ objs |-> records,
    contents |-> [i \in 1..Len(records) |-> i],
    groups |-> GroupsOf(records),
    cur |-> NoCur, status |-> Running, last |-> NoHelper, moved |-> {} ]

\* list.remove(x) and list.index(x) raise ValueError when nothing equals x.
Removable(st, p, x) ==
  /\ EqualAt(st.objs, st.contents, x) # {}
  /\ EqualAt(st.objs, st.groups[p], x) # {}

\* A plausible slip: x leaves the path's list and stays in the revision's.
RemoveFromRecordsOnly(st, p, x) ==
  IF ~Removable(st, p, x) THEN [st EXCEPT !.status = ValueError]
  ELSE [st EXCEPT !.groups[p] = ListRemove(st.objs, st.groups[p], x)]

\* self.contents.remove(x); self.records.remove(x)
RemoveBoth(st, p, x) ==
  IF ~Removable(st, p, x) THEN [st EXCEPT !.status = ValueError]
  ELSE [st EXCEPT !.contents = ListRemove(st.objs, st.contents, x),
                  !.groups[p] = ListRemove(st.objs, st.groups[p], x)]

\* A plausible slip: the first add leaves the path's list only.
DropExtraneousAddRecordsOnly(st, p) ==
  LET first == st.groups[p][1] IN
  [st EXCEPT !.groups[p] = ListRemove(st.objs, st.groups[p], first),
             !.last = "DropExtraneousAdd"]

DropExtraneousAdd(st, p) ==
  LET first == st.groups[p][1] IN
  [RemoveBoth(st, p, first) EXCEPT !.last = "DropExtraneousAdd"]

\* The text part of MergeChange: first takes second's text and checksum.
MergeText(first, second) ==
  IF second.text = None THEN first
  ELSE [first EXCEPT !.text = second.text,
                     !.tdelta = Absent,
                     !.md5 = second.md5]

\* dict.update followed, unless first is itself a delta, by the removal of
\* the keys whose value is None.
UpdateProps(first, second) ==
  LET merged == [n \in DOMAIN first.props \cup DOMAIN second.props |->
                   IF n \in DOMAIN second.props THEN second.props[n]
                   ELSE first.props[n]]
  IN IF first.pdelta # "true"
     THEN [n \in {m \in DOMAIN merged : merged[m] # Tomb} |-> merged[n]]
     ELSE merged

\* A plausible slip: the change's block replaces the earlier one whatever
\* Prop-delta says.
MergePropsReplaces(first, second) ==
  IF ~second.hasprops THEN first
  ELSE [first EXCEPT !.hasprops = TRUE, !.props = second.props]

\* The properties part of MergeChange.
MergeProps(first, second) ==
  IF ~second.hasprops THEN first
  ELSE IF ~first.hasprops
       THEN [first EXCEPT !.hasprops = TRUE, !.props = second.props]
       ELSE IF second.pdelta = "true"
            THEN [first EXCEPT !.props = UpdateProps(first, second)]
            ELSE [first EXCEPT !.props = second.props]

\* A plausible slip: a change whose text is a delta is merged like any other.
MergeChangeAnyText(st, p) ==
  LET a == st.groups[p][1]
      b == st.groups[p][2]
      merged == MergeProps(MergeText(st.objs[a], st.objs[b]), st.objs[b])
  IN [RemoveBoth([st EXCEPT !.objs[a] = merged], p, b)
        EXCEPT !.last = "MergeChange"]

MergeChange(st, p) ==
  LET a == st.groups[p][1]
      b == st.groups[p][2]
      second == st.objs[b]
  IN IF second.text # None /\ second.tdelta = "true"
     THEN [st EXCEPT !.status = UnsupportedActionPair, !.last = "MergeChange"]
     ELSE LET merged == MergeProps(MergeText(st.objs[a], second), second)
          IN [RemoveBoth([st EXCEPT !.objs[a] = merged], p, b)
                EXCEPT !.last = "MergeChange"]

\* A plausible slip: the two Records change places in the path's list only.
MoveDeleteInRecordsOnly(st, p) ==
  [st EXCEPT !.groups[p] = [st.groups[p] EXCEPT ![1] = st.groups[p][2],
                                                ![2] = st.groups[p][1]],
             !.moved = st.moved \cup {p},
             !.last = "MoveDeleteToBeforeAdd"]

MoveDeleteToBeforeAdd(st, p) ==
  LET a == st.groups[p][1]
      b == st.groups[p][2]
  IN IF EqualAt(st.objs, st.contents, b) = {}
     THEN [st EXCEPT !.status = ValueError, !.last = "MoveDeleteToBeforeAdd"]
     ELSE LET removed == ListRemove(st.objs, st.contents, b)
          IN IF EqualAt(st.objs, removed, a) = {}
             THEN [st EXCEPT !.status = ValueError,
                             !.last = "MoveDeleteToBeforeAdd"]
             ELSE [st EXCEPT
                     !.contents =
                        InsertAt(removed, ListIndex(st.objs, removed, a), b),
                     !.groups[p] = [st.groups[p] EXCEPT ![1] = b, ![2] = a],
                     !.moved = st.moved \cup {p},
                     !.last = "MoveDeleteToBeforeAdd"]

\* A plausible slip: the pair leaves the revision's list and stays in the
\* path's, where the loop finds it again.
DropAddDeletePairFromContents(st, p) ==
  LET a == st.groups[p][1]
      b == st.groups[p][2]
  IN [st EXCEPT !.contents =
                   ListRemove(st.objs, ListRemove(st.objs, st.contents, a), b),
                !.last = "DropAddDeletePair"]

DropAddDeletePair(st, p) ==
  LET a == st.groups[p][1]
      b == st.groups[p][2]
      one == RemoveBoth(st, p, a)
  IN IF one.status = ValueError THEN [one EXCEPT !.last = "DropAddDeletePair"]
     ELSE [RemoveBoth(one, p, b) EXCEPT !.last = "DropAddDeletePair"]

\* A plausible slip: the delete is turned into the replace and the add is
\* removed.
ConvertFirstIntoReplace(st, p) ==
  LET a == st.groups[p][1]
      b == st.groups[p][2]
  IN [RemoveBoth([st EXCEPT !.objs[a].action = "replace"], p, b)
        EXCEPT !.last = "ConvertDeleteAndAddIntoReplace"]

ConvertDeleteAndAddIntoReplace(st, p) ==
  LET a == st.groups[p][1]
      b == st.groups[p][2]
  IN [RemoveBoth([st EXCEPT !.objs[b].action = "replace"], p, a)
        EXCEPT !.last = "ConvertDeleteAndAddIntoReplace"]

\* A plausible slip: a second action of replace is merged like a change.
FlattenReplaceAsChange(st, p) ==
  LET first == st.objs[st.groups[p][1]]
      second == st.objs[st.groups[p][2]]
      actions == <<first.action, second.action>>
  IN IF actions = <<"add", "add">> THEN DropExtraneousAdd(st, p)
     ELSE IF actions[1] \in {"add", "change", "replace"}
             /\ actions[2] \in {"change", "replace"}
          THEN MergeChange(st, p)
     ELSE IF actions = <<"add", "delete">>
          THEN IF first.source = EXTERNALS /\ second.source = DUMP
               THEN MoveDeleteToBeforeAdd(st, p)
               ELSE DropAddDeletePair(st, p)
     ELSE IF actions = <<"delete", "add">>
          THEN ConvertDeleteAndAddIntoReplace(st, p)
     ELSE [st EXCEPT !.status = UnsupportedActionPair, !.last = "raise"]

\* _ActionPairFlattener(...).Flatten() on the first two Records of path p.
Flatten(st, p) ==
  LET first == st.objs[st.groups[p][1]]
      second == st.objs[st.groups[p][2]]
      actions == <<first.action, second.action>>
  IN IF actions = <<"add", "add">> THEN DropExtraneousAdd(st, p)
     ELSE IF actions[1] \in {"add", "change", "replace"} /\ actions[2] = "change"
          THEN MergeChange(st, p)
     ELSE IF actions = <<"add", "delete">>
          THEN IF first.source = EXTERNALS /\ second.source = DUMP
               THEN MoveDeleteToBeforeAdd(st, p)
               ELSE DropAddDeletePair(st, p)
     ELSE IF actions = <<"delete", "add">>
          THEN ConvertDeleteAndAddIntoReplace(st, p)
     ELSE [st EXCEPT !.status = UnsupportedActionPair, !.last = "raise"]

\* The paths the second loop may call Flatten on next: the path whose while
\* loop is running, or, when that loop has ended, any other path with more
\* than one Record (dict.iteritems() fixes no order).
Pending(st) == {p \in DOMAIN st.groups : Len(st.groups[p]) > 1}
\* A plausible slip: a path whose pair has changed places is not looked at
\* again.
EligibleUnmoved(st) ==
  IF st.cur \in Pending(st) \ st.moved THEN {st.cur}
  ELSE Pending(st) \ st.moved

Eligible(st) ==
  IF st.cur \in Pending(st) THEN {st.cur} ELSE Pending(st)

\* One iteration of "while len(records) > 1" for path p.
FlattenIteration(st, p) == [Flatten(st, p) EXCEPT !.cur = p]

\* The whole second loop, run to its end or to the first exception.
RECURSIVE FlattenLoop(_)
FlattenLoop(st) ==
  IF st.status # Running THEN st
  ELSE IF Eligible(st) = {} THEN [st EXCEPT !.status = Returned]
  ELSE FlattenLoop(FlattenIteration(st, CHOOSE p \in Eligible(st) : TRUE))

\* The contents list as Records, as the caller sees it afterwards.
ContentsOf(st) == [i \in 1..Len(st.contents) |-> st.objs[st.contents[i]]]

\* _FlattenMultipleActions(revision_number, contents)
FlattenMultipleActions(records) == FlattenLoop(FlatStart(records))

---------------------------------------------------------------------------
(* The repository behind the dump, as the adapters report it.  One value   *)
(* of it is chosen per revision: the subtree svn holds at a path asked     *)
(* for, what 'svn diff --summarize' lists for it, and the svn:externals    *)
(* descriptions parsed from the previous and the new revision.             *)

\* self.repo, and another repository of the externals map.
MainRepo == "main"
OtherRepo == "other"

\* A revision that is None (HEAD).
NoRev == -1

\* s is p followed by at least one more component.
IsStrictPrefix(p, s) == Len(p) < Len(s) /\ SubSeq(s, 1, Len(p)) = p

\* The order of two components, and of two paths as '/'-joined strings.
CompRank(c) ==
  CASE c = "a" -> 1 [] c = "b" -> 2 [] c = "c" -> 3 [] c = "d" -> 4
    [] c = "e" -> 5 [] c = "f" -> 6 [] c = "g" -> 7 [] OTHER -> 8
RECURSIVE PathLess(_, _)
PathLess(p, q) ==
  IF q = <<>> THEN FALSE
  ELSE IF p = <<>> THEN TRUE
  ELSE IF Head(p) # Head(q) THEN CompRank(Head(p)) < CompRank(Head(q))
  ELSE PathLess(Tail(p), Tail(q))

\* sorted(S) for a set of paths.
RECURSIVE SortPaths(_)
SortPaths(S) ==
  IF S = {} THEN <<>>
  ELSE LET least == CHOOSE p \in S : \A q \in S \ {p} : PathLess(p, q)
       IN <<least>> \o SortPaths(S \ {least})

\* The elements of a set in some order (the order a dict iterates in).
RECURSIVE SetToSeq(_)
SetToSeq(S) ==
  IF S = {} THEN <<>>
  ELSE LET x == CHOOSE y \in S : TRUE IN <<x>> \o SetToSeq(S \ {x})

\* The concatenation of a sequence of sequences.
RECURSIVE Concat(_)
Concat(ss) == IF ss = <<>> THEN <<>> ELSE Head(ss) \o Concat(Tail(ss))

\* The nodes of a subtree under its child path sub, relative to sub.
Subtree(tree, sub) ==
  LET Under(n) == n.rel = sub \/ IsStrictPrefix(sub, n.rel)
      nodes == SelectSeq(tree, Under)
  IN [i \in 1..Len(nodes) |->
        [nodes[i] EXCEPT !.rel = SubSeq(@, Len(sub) + 1, Len(@))]]

\* svndump.MakeRecordsFromPath: one add Record per node of the subtree, the
\* root first, each with a properties block and, for a file, its text and
\* Text-content-md5.
MakeRecordsFromPath(tree, dstpath, record_source) ==
  [i \in 1..Len(tree) |->
     LET n == tree[i]
         r == Record(dstpath \o n.rel, "add", n.kind, record_source)
     IN [r EXCEPT !.hasprops = TRUE, !.props = n.props,
                  !.text = n.text,
                  !.md5 = IF n.kind = "file" THEN Md5(n.text) ELSE Absent]]

\* svn_util.ExtractNodeKinds: path (relative to the root asked for) -> kind.
ExtractNodeKinds(tree) ==
  [p \in {tree[i].rel : i \in 1..Len(tree)} |->
     (CHOOSE n \in {tree[i] : i \in 1..Len(tree)} : n.rel = p).kind]

\* Filter._FilterPaths: the loop over sorted(paths).
RECURSIVE FilterPathsLoop(_, _, _, _)
FilterPathsLoop(includes, dstpath, paths, acc) ==
  IF paths = <<>> THEN acc
  ELSE LET path == Head(paths)
           interest == CheckPath(includes, dstpath \o path)
           covered == \E i \in 1..Len(acc.recursive_dirs) :
                        /\ acc.recursive_dirs[i] # <<>>
                        /\ IsStrictPrefix(acc.recursive_dirs[i], path)
           next == IF interest = PARENT
                   THEN [acc EXCEPT !.empty_dirs = Append(@, path)]
                   ELSE IF interest = YES /\ ~covered
                        THEN [acc EXCEPT !.recursive_dirs = Append(@, path)]
                        ELSE acc
       IN FilterPathsLoop(includes, dstpath, Tail(paths), next)

FilterPaths(includes, tree, dstpath) ==
  FilterPathsLoop(includes, dstpath,
                  SortPaths(DOMAIN ExtractNodeKinds(tree)),
                  [empty_dirs |-> <<>>, recursive_dirs |-> <<>>])

\* for dir_name in empty_dirs: an empty directory is added at each.
EmptyDirs(dstpath, empty_dirs) ==
  [i \in 1..Len(empty_dirs) |->
     Record(dstpath \o empty_dirs[i], "add", "dir", COPY)]

\* for dir_name in recursive_dirs: the subtree under each is added.
RecursiveDirs(tree, dstpath, recursive_dirs) ==
  Concat([i \in 1..Len(recursive_dirs) |->
            MakeRecordsFromPath(Subtree(tree, recursive_dirs[i]),
                                dstpath \o recursive_dirs[i], COPY)])

\* The copy into a path that is not itself included.
PartialCopy(tree, dstpath, fp) ==
  EmptyDirs(dstpath, fp.empty_dirs)
    \o RecursiveDirs(tree, dstpath, fp.recursive_dirs)

\* A plausible slip: the Record with the text goes before the adds.
WithChangeFirst(output, record) ==
  IF record.text # None
  THEN <<[record EXCEPT !.action = "change", !.hascopy = FALSE,
                        !.cfpath = pRoot, !.cfrev = 0,
                        !.csmd5 = Absent, !.cssha1 = Absent]>> \o output
  ELSE output

\* Lines 484-494: a copy Record that has a text follows the adds as a change
\* without the copy headers.
WithChange(output, record) ==
  IF record.text # None
  THEN Append(output,
              [record EXCEPT !.action = "change", !.hascopy = FALSE,
                             !.cfpath = pRoot, !.cfrev = 0,
                             !.csmd5 = Absent, !.cssha1 = Absent])
  ELSE output

\* The second half of _FixCopyFrom: the copy is replaced by Records that add
\* what it would have copied.
Dereference(includes, record, tree) ==
  WithChange(IF IsIncluded(includes, record.path)
             THEN MakeRecordsFromPath(tree, record.path, COPY)
             ELSE PartialCopy(tree, record.path,
                              FilterPaths(includes, tree, record.path)),
             record)

\* A plausible slip: a copy into a parent path is left as it is whatever its
\* source.
FixCopyFromKeepParent(includes, record, tree) ==
  IF IsIncluded(includes, record.cfpath) THEN <<record>>
  ELSE IF IsParentOfIncluded(includes, record.path) THEN <<record>>
  ELSE Dereference(includes, record, tree)

\* Filter._FixCopyFrom
FixCopyFrom(includes, record, tree) ==
  IF IsIncluded(includes, record.cfpath) THEN <<record>>
  ELSE IF IsParentOfIncluded(includes, record.path)
          /\ record.cfpath = record.path
       THEN <<record>>
  ELSE Dereference(includes, record, tree)

---------------------------------------------------------------------------
(* externals.Diff, Filter._InternalizeExternals, _ApplyExternalsChange     *)

\* ExternalsDescription.__init__; dstpath and srcpath are paths.
ExternalsDescription(dstpath, srcrepo, srcrev, srcpath, srcpeg) ==
  [ dstpath |-> dstpath, srcrepo |-> srcrepo,
    srcrev |-> IF srcrev = NoRev THEN srcpeg ELSE srcrev,
    srcpath |-> srcpath, srcpeg |-> srcpeg ]

\* A dict of descriptions without entries.
NoExternals == [d \in {} |-> ExternalsDescription(pRoot, MainRepo, NoRev, pRoot, NoRev)]

\* The first loop of externals.Diff, over new.
RECURSIVE DiffNew(_, _, _, _, _)
DiffNew(old, new, include_peg, keys, acc) ==
  IF keys = <<>> THEN acc
  ELSE
    LET dstpath == Head(keys)
        new_descr == new[dstpath]
        next ==
          IF dstpath \in DOMAIN old
          THEN LET old_descr == old[dstpath] IN
               IF old_descr.srcrepo # new_descr.srcrepo
               THEN [acc EXCEPT !.deleted = Append(@, old_descr),
                                !.added = Append(@, new_descr)]
               ELSE IF \/ old_descr.srcpath # new_descr.srcpath
                       \/ old_descr.srcrev # new_descr.srcrev
                       \/ include_peg /\ old_descr.srcpeg # new_descr.srcpeg
                    THEN [acc EXCEPT
                            !.changed = Append(@, <<old_descr, new_descr>>)]
                    ELSE acc
          ELSE [acc EXCEPT !.added = Append(@, new_descr)]
    IN DiffNew(old, new, include_peg, Tail(keys), next)

\* The second loop, over old.
RECURSIVE DiffOld(_, _, _, _)
DiffOld(old, new, keys, acc) ==
  IF keys = <<>> THEN acc
  ELSE DiffOld(old, new, Tail(keys),
               IF Head(keys) \notin DOMAIN new
               THEN [acc EXCEPT !.deleted = Append(@, old[Head(keys)])]
               ELSE acc)

\* A plausible slip: the peg revisions are compared whatever include_peg is.
DiffAlwaysPeg(old, new, include_peg) ==
  DiffOld(old, new, SetToSeq(DOMAIN old),
          DiffNew(old, new, TRUE, SetToSeq(DOMAIN new),
                  [added |-> <<>>, changed |-> <<>>, deleted |-> <<>>]))

\* externals.Diff
Diff(old, new, include_peg) ==
  DiffOld(old, new, SetToSeq(DOMAIN old),
          DiffNew(old, new, include_peg, SetToSeq(DOMAIN new),
                  [added |-> <<>>, changed |-> <<>>, deleted |-> <<>>]))

\* A value None of a contents or properties operation of svn_util.Diff.
NoOp == "None"

\* The second loop of _ApplyExternalsChange on one Record of add_records:
\* nothing for a path that has not changed, else the Record adjusted.
ApplyChangeTo(add_record, record_path, paths_changed) ==
  IF record_path \notin DOMAIN paths_changed THEN <<>>
  ELSE LET contents_op == paths_changed[record_path][1]
           props_op == paths_changed[record_path][2]
           a == IF contents_op = "modify"
                THEN [add_record EXCEPT !.action = "change"]
                ELSE IF contents_op = NoOp
                     THEN [add_record EXCEPT !.text = None]
                     ELSE add_record
           b == IF props_op = NoOp /\ contents_op # "add"
                THEN [a EXCEPT !.hasprops = FALSE, !.props = NoEntries]
                ELSE a
       IN <<b>>

\* The first loop of _ApplyExternalsChange: a delete per deleted path.
DeletedChildren(base, paths_changed, chpaths) ==
  LET IsDelete(chpath) == paths_changed[chpath][1] = "delete"
      gone == SelectSeq(chpaths, IsDelete)
  IN [i \in 1..Len(gone) |->
        Record(base \o gone[i], "delete", Absent, EXTERNALS)]

\* The second loop of _ApplyExternalsChange.
ChangedChildren(base, paths_changed, add_records) ==
  Concat([i \in 1..Len(add_records) |->
            ApplyChangeTo(add_records[i],
                          SubSeq(add_records[i].path, Len(base) + 1,
                                 Len(add_records[i].path)),
                          paths_changed)])

\* Filter._ApplyExternalsChange.  The diff listed never marks as deleted a
\* path the new tree holds.
ApplyExternalsChange(path, old, new, repo) ==
  IF DOMAIN repo.diff = {} THEN <<>>
  ELSE DeletedChildren(path \o new.dstpath, repo.diff,
                       SetToSeq(DOMAIN repo.diff))
       \o ChangedChildren(path \o new.dstpath, repo.diff,
                          MakeRecordsFromPath(repo.tree, path \o new.dstpath,
                                              EXTERNALS))

\* A plausible slip: a changed external whose old revision is unknown is
\* skipped like one whose new revision is unknown.
ChangedStepSkipsOld(includes, path, old, new, acc, repo) ==
  IF old.srcrev = NoRev \/ new.srcrev = NoRev THEN acc
  ELSE IF new.srcrepo = MainRepo /\ IsIncluded(includes, new.srcpath)
  THEN [acc EXCEPT !.deleted = Append(@, old), !.added = Append(@, new)]
  ELSE [acc EXCEPT !.output = @ \o ApplyExternalsChange(path, old, new, repo)]

\* Lines 545-561: the body of the loop over changed, for one pair.
ChangedStep(includes, path, old, new, acc, repo) ==
  IF \/ old.srcrev = NoRev
     \/ new.srcrepo = MainRepo /\ IsIncluded(includes, new.srcpath)
  THEN [acc EXCEPT !.deleted = Append(@, old), !.added = Append(@, new)]
  ELSE IF new.srcrev = NoRev THEN acc
  ELSE [acc EXCEPT !.output = @ \o ApplyExternalsChange(path, old, new, repo)]

\* The loop over changed in _InternalizeExternals.
RECURSIVE ChangedLoop(_, _, _, _, _)
ChangedLoop(includes, path, changed, acc, repo) ==
  IF changed = <<>> THEN acc
  ELSE ChangedLoop(includes, path, Tail(changed),
                   ChangedStep(includes, path, Head(changed)[1],
                               Head(changed)[2], acc, repo),
                   repo)

\* The loop over added in _InternalizeExternals, for one description.
AddExternal(includes, path, description, repo) ==
  IF description.srcrepo = MainRepo /\ IsIncluded(includes, description.srcpath)
  THEN <<[Record(path \o description.dstpath, "add", "dir", EXTERNALS)
            EXCEPT !.hascopy = TRUE,
                   !.cfpath = description.srcpath,
                   !.cfrev = description.srcrev]>>
  ELSE IF description.srcrev = NoRev THEN <<>>
  ELSE MakeRecordsFromPath(repo.tree, path \o description.dstpath, EXTERNALS)

\* Lines 515-526: the new value of svn:externals, parsed.
NewExternals(record, repo) ==
  IF "svn:externals" \in DOMAIN record.props
     /\ record.props["svn:externals"] \notin {Tomb, ""}
  THEN repo.new_ext ELSE NoExternals

\* Lines 562-570: a delete per former external.
DeleteExternals(path, deleted) ==
  [i \in 1..Len(deleted) |->
     Record(path \o deleted[i].dstpath, "delete", Absent, EXTERNALS)]

\* Lines 571-598: the new externals.
AddExternals(includes, path, added, repo) ==
  Concat([i \in 1..Len(added) |-> AddExternal(includes, path, added[i], repo)])

\* What _InternalizeExternals returns, ch being the state after the loop
\* over changed.
InternalizeOutput(includes, path, ch, repo) ==
  ch.output \o DeleteExternals(path, ch.deleted)
            \o AddExternals(includes, path, ch.added, repo)

\* The state before the loop over changed.
InternalizeStart(record, d) ==
  [output |-> <<record>>, added |-> d.added, deleted |-> d.deleted,
   changed |-> d.changed]

\* for old, new in changed: ...
InternalizeChanged(includes, path, start, repo) ==
  ChangedLoop(includes, path, start.changed,
              [output |-> start.output, added |-> start.added,
               deleted |-> start.deleted], repo)

\* Filter._InternalizeExternals
InternalizeExternals(includes, record, repo) ==
  InternalizeOutput(
    includes, record.path,
    InternalizeChanged(
      includes, record.path,
      InternalizeStart(record,
                       Diff(repo.prev_ext, NewExternals(record, repo), FALSE)),
      repo),
    repo)

\* A plausible slip: Prop-delta is not looked at.
DoesNotAffectExternalsByOmission(r) ==
  IF r.action = "delete" THEN TRUE
  ELSE IF r.kind # "dir" THEN TRUE
  ELSE IF ~r.hasprops THEN TRUE
  ELSE IF "svn:externals" \in DOMAIN r.props THEN FALSE
  ELSE IF r.action = "add" THEN TRUE
  ELSE FALSE

\* Record.DoesNotAffectExternals
DoesNotAffectExternals(r) ==
  IF r.action = "delete" THEN TRUE
  ELSE IF r.kind # "dir" THEN TRUE
  ELSE IF ~r.hasprops THEN TRUE
  ELSE IF "svn:externals" \in DOMAIN r.props THEN FALSE
  ELSE IF r.action = "add" THEN TRUE
  ELSE IF r.pdelta = "true" THEN TRUE
  ELSE FALSE

---------------------------------------------------------------------------
(* Filter._FilterRecord and Filter._FilterRev                              *)

\* A plausible slip: a directory on a PARENT path keeps its properties.
CoerceParentKeepsProps(record) ==
  IF record.action = "change" THEN <<>>
  ELSE IF record.action \in {"add", "replace"} /\ record.kind = "file"
       THEN <<Record(record.path, record.action, "dir", DUMP)>>
       ELSE <<record>>

\* The coercion of a Record on a path that is a PARENT: nothing for a
\* change, a new directory Record for a file, the Record without its
\* properties block for a directory, a delete as it is.
CoerceParent(record) ==
  IF record.action = "change" THEN <<>>
  ELSE IF record.action \in {"add", "replace"}
       THEN IF record.kind = "file"
            THEN <<Record(record.path, record.action, "dir", DUMP)>>
            ELSE <<[record EXCEPT !.hasprops = FALSE, !.props = NoEntries]>>
       ELSE <<record>>

\* Lines 398-416: by the verdict on its path a Record is dropped, coerced or
\* kept.
ByInterest(interest, record) ==
  IF interest = NO THEN <<>>
  ELSE IF interest = PARENT THEN CoerceParent(record)
  ELSE <<record>>

\* Lines 418-421
Copyless(includes, records, tree) ==
  IF records = <<>> THEN <<>>
  ELSE IF records[1].hascopy THEN FixCopyFrom(includes, records[1], tree)
  ELSE records

\* Lines 423-432
WithExternals(o, copyless_records, repo) ==
  Concat([i \in 1..Len(copyless_records) |->
     IF ~o.externals_map \/ DoesNotAffectExternals(copyless_records[i])
     THEN <<copyless_records[i]>>
     ELSE InternalizeExternals(o.includes, copyless_records[i], repo)])

\* Filter._FilterRecord
FilterRecord(o, record, repo) ==
  WithExternals(o,
                Copyless(o.includes,
                         ByInterest(CheckPath(o.includes, record.path), record),
                         repo.tree),
                repo)

\* for prop in self.delete_properties: record.DeleteProperty(prop)
RECURSIVE DeleteProperties(_, _)
DeleteProperties(r, names) ==
  IF names = <<>> THEN r
  ELSE DeleteProperties(DeleteProperty(r, Head(names)), Tail(names))

\* Lines 352-358: the Records of the revision, each filtered unless
\* drop_actions names its path.
FilterContents(o, revision_number, contents, repo) ==
  Concat([i \in 1..Len(contents) |->
     IF /\ revision_number \in DOMAIN o.drop_actions
        /\ contents[i].path \in o.drop_actions[revision_number]
     THEN <<>>
     ELSE FilterRecord(o, contents[i], repo)])

\* Lines 362-364: a delete for each path of force_delete.
ForcedDeletes(o, revision_number) ==
  IF revision_number \in DOMAIN o.force_delete
  THEN [i \in 1..Len(o.force_delete[revision_number]) |->
          Record(o.force_delete[revision_number][i], "delete", Absent, DUMP)]
  ELSE <<>>

\* Lines 368-371
StripProperties(records, names) ==
  [i \in 1..Len(records) |-> DeleteProperties(records[i], names)]

\* Lines 360-373, st being what _FlattenMultipleActions left.
AfterFlatten(o, revision_number, st) ==
  IF st.status # Returned
  THEN [status |-> st.status, records |-> <<>>]
  ELSE [status |-> Returned,
        records |-> StripProperties(
                      ContentsOf(st) \o ForcedDeletes(o, revision_number),
                      SetToSeq(o.delete_properties))]

\* Filter._FilterRev: the Records to write for the revision, or the
\* exception _FlattenMultipleActions raised.
FilterRev(o, hdr, contents, repo) ==
  IF hdr.revno \in o.truncate_revs
  THEN [status |-> Returned, records |-> <<>>]
  ELSE AfterFlatten(o, hdr.revno,
                    FlattenMultipleActions(
                      FilterContents(o, hdr.revno, contents, repo)))

---------------------------------------------------------------------------
(* svndump._ParseProps.  A property block is the sequence of its           *)
(* characters; Python's indices start at 0.                                *)

PropsParseError == "PropsParseError"
IndexError == "IndexError"
Parsed == "parsed"
NL == "\n"
PropsEnd == <<"P", "R", "O", "P", "S", "-", "E", "N", "D">>
Digits == <<"0", "1", "2", "3", "4", "5", "6", "7", "8", "9">>

\* proptext[a:b]
Slice(text, a, b) ==
  IF a >= Min(b, Len(text)) THEN <<>> ELSE SubSeq(text, a + 1, Min(b, Len(text)))

\* proptext.find(ch, from): the least index at or after from that holds ch,
\* or -1.
Find(text, ch, from) ==
  LET at == {i \in from..(Len(text) - 1) : text[i + 1] = ch}
  IN IF at = {} THEN 0 - 1 ELSE First(at)

\* Whether int(chars) returns: chars is one or more decimal digits.
IsNumber(chars) ==
  chars # <<>> /\ \A i \in 1..Len(chars) : \E d \in 1..10 : Digits[d] = chars[i]

\* int(chars) for such chars.
RECURSIVE ToInt(_)
ToInt(chars) ==
  IF chars = <<>> THEN 0
  ELSE 10 * ToInt(SubSeq(chars, 1, Len(chars) - 1))
       + (CHOOSE d \in 0..9 : Digits[d + 1] = chars[Len(chars)])

\* What _ParseProps leaves: the exception raised, or the dict.
Raised(exception) == [status |-> exception, props |-> <<>>]

\* Lines 343-353 and 357-366: the length line at index and the content after
\* it, which a newline must follow.  The content and the index after it, or
\* the exception.
ReadContent(text, index) ==
  LET nlpos == Find(text, NL, index)
      lenstr == Slice(text, index + 2, nlpos)
      len == ToInt(lenstr)
  IN IF nlpos <= 0 THEN [status |-> PropsParseError]
     ELSE IF ~IsNumber(lenstr) THEN [status |-> ValueError]
     ELSE IF nlpos + 1 + len >= Len(text) THEN [status |-> IndexError]
     ELSE IF text[nlpos + 1 + len + 1] # NL THEN [status |-> PropsParseError]
     ELSE [status |-> Parsed,
           content |-> Slice(text, nlpos + 1, nlpos + 1 + len),
           index |-> nlpos + 2 + len]

\* props[name] = prop; a dict keeps the order in which its keys came.
SetItem(props, name, prop) ==
  IF \E i \in 1..Len(props) : props[i].name = name
  THEN [i \in 1..Len(props) |->
          IF props[i].name = name THEN [props[i] EXCEPT !.prop = prop]
          ELSE props[i]]
  ELSE Append(props, [name |-> name, prop |-> prop])

\* The value None of a property marked as deleted.
NoProp == <<"None">>

\* The while loop of _ParseProps from index on, and the check after it.
RECURSIVE ParseLoop(_, _, _)
ParseLoop(text, index, props) ==
  LET two == Slice(text, index, index + 2)
      name == ReadContent(text, index)
      val == ReadContent(text, name.index)
  IN IF two \notin {<<"K", " ">>, <<"D", " ">>}
     THEN IF Slice(text, index, index + 9) = PropsEnd
          THEN IF Len(text) # index + 10 THEN Raised(PropsParseError)
               ELSE [status |-> Parsed, props |-> props]
          ELSE Raised(PropsParseError)
     ELSE IF name.status # Parsed THEN Raised(name.status)
     ELSE IF two = <<"D", " ">>
          THEN ParseLoop(text, name.index, SetItem(props, name.content, NoProp))
     ELSE IF Slice(text, name.index, name.index + 2) # <<"V", " ">>
          THEN Raised(PropsParseError)
     ELSE IF val.status # Parsed THEN Raised(val.status)
     ELSE ParseLoop(text, val.index, SetItem(props, name.content, val.content))

\* svndump._ParseProps
ParseProps(proptext) == ParseLoop(proptext, 0, <<>>)

\* Before _ParseProps is handed a block.
IdleProps ==
  /\ pp_text = <<>>
  /\ pp_kind = "none"
  /\ pp_out = Raised("none")
  /\ pp_called = FALSE

---------------------------------------------------------------------------
(* externals._FindExternalPath.  A URL and a prefix are the sequences of   *)
(* their characters; the map is the sequence of its (prefix, repo) items   *)
(* in the order iteritems() yields them.                                   *)

UnknownRepo == "UnknownRepo"
Found == "found"

\* url.startswith(prefix)
StartsWith(url, prefix) ==
  Len(prefix) <= Len(url) /\ SubSeq(url, 1, Len(prefix)) = prefix

\* The condition of lines 190 and 193 on one item.
Maps(url, prefix) == url = prefix \/ StartsWith(url, Append(prefix, "/"))

\* What the loop returns at the item it stops at: path is '' or
\* url[len(prefix) + 1:].
FoundAt(url, item) ==
  [status |-> Found, repo |-> item.repo,
   path |-> IF url = item.prefix THEN <<>>
            ELSE SubSeq(url, Len(item.prefix) + 2, Len(url))]

\* raise UnknownRepo
NotFound == [status |-> UnknownRepo, repo |-> "", path |-> <<>>]

\* The loop of _FindExternalPath over the items from the i-th on.
RECURSIVE FindFrom(_, _, _)
FindFrom(url, externals_map, i) ==
  IF i > Len(externals_map) THEN NotFound
  ELSE IF Maps(url, externals_map[i].prefix) THEN FoundAt(url, externals_map[i])
  ELSE FindFrom(url, externals_map, i + 1)

\* externals._FindExternalPath
FindExternalPath(url, externals_map) == FindFrom(url, externals_map, 1)

\* Before _FindExternalPath is handed a URL.
IdleUrl ==
  /\ fe_url = <<>>
  /\ fe_map = <<>>
  /\ fe_out = [status |-> "none", repo |-> "", path |-> <<>>]
  /\ fe_called = FALSE

---------------------------------------------------------------------------
(* svndumpgrab.  Of a record main looks at Revision-number and sets        *)
(* Record-index; id stands for the rest of it.  Record.Write with revmap   *)
(* None leaves both headers as they are.                                   *)

\* A revision header and a node record as ReadRecord returns them; index is
\* NoLen where the Record-index header is absent.
GrabHeader(revno) == [rev |-> TRUE, revno |-> revno, id |-> 0, index |-> NoLen]
GrabNode(id) == [rev |-> FALSE, revno |-> 0, id |-> id, index |-> NoLen]

\* One part of the argument: a number, or first-last.
Single(n) == <<n>>
Range(first, last) == <<first, last>>

\* StringToIntSet: the union of the parts, a part with '-' giving
\* xrange(first, last + 1).
RECURSIVE StringToIntSet(_)
StringToIntSet(parts) ==
  IF parts = <<>> THEN {}
  ELSE (IF Len(Head(parts)) = 2 THEN Head(parts)[1]..Head(parts)[2]
        ELSE {Head(parts)[1]})
       \cup StringToIntSet(Tail(parts))

\* Lines 22-26: revs is None without an argument.
NoRevs == [given |-> FALSE, set |-> {}]
GrabRevs(arg) ==
  IF arg = <<>> THEN NoRevs ELSE [given |-> TRUE, set |-> StringToIntSet(arg)]

\* max(revs)
MaxRev(revs) == CHOOSE m \in revs.set : \A n \in revs.set : n <= m

\* Includes(container, item)
Includes(container, item) == ~container.given \/ item \in container.set

\* A plausible slip: rev_action_num is incremented before it is used.
TaggedFromOne(record, rev_action_num) ==
  [record EXCEPT !.index = rev_action_num + 1]

\* Line 42: record.headers['Record-index'] = str(rev_action_num)
Tagged(record, rev_action_num) == [record EXCEPT !.index = rev_action_num]

\* Before svndumpgrab runs.
IdleGrab ==
  /\ gr_arg = <<>>
  /\ gr_input = <<>>
  /\ gr_pos = 0
  /\ gr_revnum = NoRev
  /\ gr_action_num = NoRev
  /\ gr_out = <<>>
  /\ gr_pc = "idle"

---------------------------------------------------------------------------
(* Filter.Filter                                                           *)

\* The value None of a variable that holds a Record.
NoRecord == Record(NoPath, Absent, Absent, DUMP)

\* The records of the dump-file header, which precede the first revision.
PrologueRecords ==
  << [NoRecord EXCEPT !.misc = "SVN-fs-dump-format-version"],
     [NoRecord EXCEPT !.misc = "UUID"] >>

\* The header record of revision n, with its property block (the log
\* message) and the length headers a well-formed dump gives it.
RevisionHeader(n) ==
  ReadRecord([NoRecord EXCEPT !.hasrev = TRUE, !.revno = n,
                              !.hasprops = TRUE,
                              !.props = [k \in {"svn:log"} |-> "msg"]])

\* A plausible slip: a revision is written only when it has Records.
ShouldWriteNonEmpty(contents, drop_empty_revs) == contents # <<>>

\* should_write = contents or not self.drop_empty_revs
ShouldWrite(contents, drop_empty_revs) ==
  contents # <<>> \/ ~drop_empty_revs

\* Lines 324-325
NextOutputRev(cur, should_write) == IF should_write THEN cur + 1 ELSE cur

\* A plausible slip: the revision is mapped to its own number.
UpdateRevmapKeepsNumber(o, rm, revision_number, cur) ==
  IF o.drop_empty_revs /\ rm.given
  THEN [rm EXCEPT !.map =
          [r \in DOMAIN rm.map \cup {revision_number} |->
             IF r = revision_number THEN revision_number ELSE rm.map[r]]]
  ELSE rm

\* Lines 330-331
UpdateRevmap(o, rm, revision_number, cur) ==
  IF o.drop_empty_revs /\ rm.given
  THEN [rm EXCEPT !.map =
          [r \in DOMAIN rm.map \cup {revision_number} |->
             IF r = revision_number THEN cur ELSE rm.map[r]]]
  ELSE rm

\* Lines 334-337
WriteRevision(hdr, contents, should_write, rm) ==
  IF should_write THEN WriteAll(<<hdr>> \o contents, rm)
  ELSE [out |-> <<>>, failed |-> FALSE]

\* What one iteration leaves: the exception, if any, the Records of the
\* revision, the locals and what was written.
Iterated(contents, should_write, cur, rm, w) ==
  [error |-> IF w.failed THEN "KeyError" ELSE "",
   records |-> contents, should_write |-> should_write,
   cur |-> cur, rm |-> rm, out |-> w.out]

\* Lines 323-337
Decide(o, rm, cur, hdr, contents, should_write) ==
  Iterated(contents, should_write,
           NextOutputRev(cur, should_write),
           UpdateRevmap(o, rm, hdr.revno, NextOutputRev(cur, should_write)),
           WriteRevision(hdr, contents, should_write,
                         UpdateRevmap(o, rm, hdr.revno,
                                      NextOutputRev(cur, should_write))))

\* A plausible slip: the revision's header is written before the revision
\* is filtered.
FilterIterationHeaderFirst(o, rm, cur, hdr, res) ==
  IF res.status # Returned
  THEN [error |-> res.status, records |-> <<>>, should_write |-> FALSE,
        cur |-> cur, rm |-> rm, out |-> <<Write(hdr, RevmapNone)>>]
  ELSE Decide(o, rm, cur, hdr, res.records,
              ShouldWrite(res.records, o.drop_empty_revs))

\* One iteration of the revision loop, lines 315-337, res being what
\* _FilterRev returned or raised.
FilterIteration(o, rm, cur, hdr, res) ==
  IF res.status # Returned
  THEN [error |-> res.status, records |-> <<>>, should_write |-> FALSE,
        cur |-> cur, rm |-> rm, out |-> <<>>]
  ELSE Decide(o, rm, cur, hdr, res.records,
              ShouldWrite(res.records, o.drop_empty_revs))

\* Before _FilterRecord is called on its own.
IdleRecord ==
  /\ fr_opts = [includes |-> <<>>, externals_map |-> FALSE]
  /\ fr_record = NoRecord
  /\ fr_repo = NoRecord
  /\ fr_out = <<>>
  /\ fr_called = FALSE

\* The variables of the filter's machine, at rest.
IdleFilter ==
  /\ opts = [includes |-> <<>>]
  /\ revmap = RevmapNone
  /\ input_nodes = {}
  /\ input_revnos = {}
  /\ repo_answers = {}
  /\ pc = "idle"
  /\ error = ""
  /\ prologue_left = 0
  /\ revhdr = NoRecord
  /\ revs_left = 0
  /\ recs_left = 0
  /\ read_any = FALSE
  /\ current_output_rev = 0
  /\ out_revs = 0
  /\ rev_in = NoRecord
  /\ contents_in = <<>>
  /\ filtered = <<>>
  /\ written = <<>>

\* The variables of the path filter's machine, at rest.
IdlePath ==
  /\ pf_includes = <<>>
  /\ pf_path = <<>>
  /\ pf_result = NO
  /\ pf_called = FALSE

\* The variables of the flattener's machine, at rest.
IdleFlatten == flat_in = <<>> /\ flat = FlatStart(<<>>)

\* What externals.Diff returns when nothing differs.
NoDiff == [added |-> <<>>, changed |-> <<>>, deleted |-> <<>>]

\* The variables of externals.Diff's machine, at rest.
IdleDiff ==
  /\ diff_old = NoExternals
  /\ diff_new = NoExternals
  /\ diff_peg = FALSE
  /\ diff_out = NoDiff
  /\ diff_called = FALSE

\* Filter.__init__ as main calls it, before Filter.Filter: the options, the
\* revmap (a dict when --renumber-revs is given), and an input stream that
\* begins with one of the given numbers of dump-file header records and
\* holds at most nrevs revisions, numbered in increasing order from revnos,
\* and nrecs node records; it may end anywhere.
Constructed(options, revmaps, nodes, revnos, answers, prologues, nrevs, nrecs) ==
  /\ opts \in options
  /\ revmap \in revmaps
  /\ input_nodes = nodes
  /\ input_revnos = revnos
  /\ repo_answers = answers
  /\ revs_left = nrevs
  /\ recs_left = nrecs
  /\ read_any = FALSE
  /\ prologue_left \in prologues
  /\ pc = "prologue"
  /\ error = ""
  /\ revhdr = NoRecord
  /\ current_output_rev = 0
  /\ out_revs = 0
  /\ rev_in = NoRecord
  /\ contents_in = <<>>
  /\ filtered = <<>>
  /\ written = <<>>

\* Lines 295-298, a record without Revision-number: it is written as it is
\* and the next one is read.
ReadPrologue ==
  /\ pc = "prologue"
  /\ prologue_left > 0
  /\ prologue_left' = prologue_left - 1
  /\ read_any' = TRUE
  /\ written' = <<Write(PrologueRecords[Len(PrologueRecords) - prologue_left + 1],
                        revmap)>>
  /\ UNCHANGED <<opts, revmap, input_nodes, input_revnos, repo_answers, pc,
                 error, revhdr,
                 revs_left, recs_left, current_output_rev, out_revs, rev_in,
                 contents_in, filtered>>
  /\ UNCHANGED <<pathVars, flatVars, otherVars>>

\* Lines 295-298 at the end of the stream: ReadRecord returns None and
\* record.headers raises AttributeError.
PrologueEOF ==
  /\ pc = "prologue"
  /\ prologue_left = 0
  /\ pc' = "failed"
  /\ error' = "AttributeError"
  /\ written' = <<>>
  /\ UNCHANGED <<opts, revmap, input_nodes, input_revnos, repo_answers,
                 prologue_left,
                 revhdr, revs_left, recs_left, read_any, current_output_rev,
                 out_revs, rev_in, contents_in, filtered>>
  /\ UNCHANGED <<pathVars, flatVars, otherVars>>

\* Lines 296-302, the first record with Revision-number: it is the first
\* revision's header.
FirstRevision ==
  /\ pc = "prologue"
  /\ prologue_left = 0
  /\ revs_left > 0
  /\ \E n \in input_revnos : revhdr' = RevisionHeader(n)
  /\ revs_left' = revs_left - 1
  /\ read_any' = TRUE
  /\ pc' = "revs"
  /\ written' = <<>>
  /\ UNCHANGED <<opts, revmap, input_nodes, input_revnos, repo_answers, error,
                 prologue_left, recs_left, current_output_rev, out_revs,
                 rev_in, contents_in, filtered>>
  /\ UNCHANGED <<pathVars, flatVars, otherVars>>

\* What ReadRecord returns after a revision's last record: the header of a
\* later revision, or None at the end of the stream.
NextHeaders ==
  {NoRecord} \cup
  IF revs_left = 0 THEN {}
  ELSE {RevisionHeader(n) : n \in {m \in input_revnos : m > revhdr.revno}}

\* The trees, path diffs and externals the repository may answer with.
Props1 == [n \in {"p"} |-> "v1"]
Props2 == [n \in {"q"} |-> "v2"]
PropsDel == [n \in {"p"} |-> Tomb]

TreeFile ==
  << [rel |-> <<>>, kind |-> "file", text |-> "t1", props |-> Props1] >>
TreeDir ==
  << [rel |-> <<>>, kind |-> "dir", text |-> None, props |-> Props1],
     [rel |-> <<"a">>, kind |-> "file", text |-> "t1", props |-> NoEntries],
     [rel |-> <<"b">>, kind |-> "file", text |-> "t1", props |-> Props1] >>
DiffFile == [p \in {<<>>} |-> <<"modify", NoOp>>]
DiffDir ==
  [p \in {<<"a">>, <<"b">>, <<"c">>} |->
     IF p = <<"a">> THEN <<"modify", "modify">>
     ELSE IF p = <<"b">> THEN <<NoOp, "modify">>
     ELSE <<"delete", NoOp>>]
External(srcrepo, srcrev, srcpath) ==
  [d \in {<<"b">>} |->
     ExternalsDescription(<<"b">>, srcrepo, srcrev, srcpath, NoRev)]
\* A repository that is never asked holds nothing of interest.
QuietRepo ==
  [ tree |-> TreeFile, diff |-> DiffFile,
    prev_ext |-> NoExternals, new_ext |-> NoExternals ]
Repos ==
  [ tree : {TreeFile}, diff : {DiffFile},
    prev_ext : {NoExternals, External(MainRepo, 1, pB)},
    new_ext : {NoExternals, External(MainRepo, 2, pB),
               External(OtherRepo, 1, pB)} ]
  \cup
  [ tree : {TreeDir}, diff : {DiffDir},
    prev_ext : {External(OtherRepo, NoRev, pB), External(OtherRepo, 1, pB)},
    new_ext : {External(OtherRepo, NoRev, pB), External(OtherRepo, 2, pB)} ]

\* The variables an iteration of the revision loop sets.
Iterate(it, contents) ==
  /\ rev_in' = revhdr
  /\ contents_in' = contents
  /\ filtered' = it.records
  /\ written' = it.out
  /\ current_output_rev' = it.cur
  /\ revmap' = it.rm
  /\ out_revs' = IF it.should_write /\ it.error = "" THEN out_revs + 1
                 ELSE out_revs
  /\ recs_left' = recs_left - Len(contents)

\* An iteration that completes: the loop goes on with the next header, or
\* ends at the end of the stream.
Completes(it, contents, newrevhdr) ==
  /\ it.error = ""
  /\ Iterate(it, contents)
  /\ revhdr' = newrevhdr
  /\ revs_left' = IF newrevhdr = NoRecord THEN revs_left ELSE revs_left - 1
  /\ pc' = IF newrevhdr = NoRecord THEN "done" ELSE "revs"
  /\ UNCHANGED error

\* An iteration an exception leaves.
Raises(it, contents) ==
  /\ it.error # ""
  /\ Iterate(it, contents)
  /\ error' = it.error
  /\ pc' = "failed"
  /\ UNCHANGED <<revhdr, revs_left>>

\* One iteration of the revision loop, lines 303-340, that completes: the
\* revision's records are read up to the next header or the end of the
\* stream, filtered, and written or dropped.
FilterRevision ==
  /\ pc = "revs"
  /\ \E contents \in SeqsUpTo(input_nodes, recs_left), repo \in repo_answers,
        newrevhdr \in NextHeaders :
       Completes(FilterIteration(opts, revmap, current_output_rev, revhdr,
                                 FilterRev(opts, revhdr, contents, repo)),
                 contents, newrevhdr)
  /\ UNCHANGED <<opts, input_nodes, input_revnos, repo_answers,
                 prologue_left, read_any>>
  /\ UNCHANGED <<pathVars, flatVars, otherVars>>

\* One iteration of the revision loop that an exception leaves:
\* UnsupportedActionPair from _FilterRev, before anything of the revision is
\* written, or KeyError from a Write.
FilterRevisionRaises ==
  /\ pc = "revs"
  /\ \E contents \in SeqsUpTo(input_nodes, recs_left), repo \in repo_answers :
       Raises(FilterIteration(opts, revmap, current_output_rev, revhdr,
                              FilterRev(opts, revhdr, contents, repo)),
              contents)
  /\ UNCHANGED <<opts, input_nodes, input_revnos, repo_answers,
                 prologue_left, read_any>>
  /\ UNCHANGED <<pathVars, flatVars, otherVars>>

\* Whether _FixCopyFrom leaves a copy Record as it is, lines 450-462.
CopyKept(includes, record) ==
  \/ IsIncluded(includes, record.cfpath)
  \/ IsParentOfIncluded(includes, record.path) /\ record.cfpath = record.path

\* Whether filtering the Records contents asks the repository: _FixCopyFrom
\* does for a copy it does not keep, _InternalizeExternals always does.
ConsultsRepo(o, revision_number, contents) ==
  \E i \in 1..Len(contents) :
    /\ ~(/\ revision_number \in DOMAIN o.drop_actions
         /\ contents[i].path \in o.drop_actions[revision_number])
    /\ \E j \in 1..Len(ByInterest(CheckPath(o.includes, contents[i].path),
                                   contents[i])) :
         LET record == ByInterest(CheckPath(o.includes, contents[i].path),
                                  contents[i])[j]
         IN \/ record.hascopy /\ ~CopyKept(o.includes, record)
            \/ o.externals_map /\ ~DoesNotAffectExternals(record)

\* An iteration that leaves the loop before _FilterRev returns; nothing has
\* been decided or written for the revision.
Aborts(contents, exception) ==
  /\ rev_in' = revhdr
  /\ contents_in' = contents
  /\ filtered' = <<>>
  /\ written' = <<>>
  /\ error' = exception
  /\ pc' = "failed"
  /\ UNCHANGED <<opts, revmap, input_nodes, input_revnos, repo_answers,
                 prologue_left, revhdr, revs_left, recs_left, read_any,
                 current_output_rev, out_revs>>
  /\ UNCHANGED <<pathVars, flatVars, otherVars>>

\* Lines 308-313: ReadRecord raises on a malformed record among those of
\* the revision, after it has returned contents.
ReadRecordRaises ==
  /\ pc = "revs"
  /\ recs_left > 0
  /\ \E contents \in SeqsUpTo(input_nodes, recs_left - 1),
        exception \in {PropsParseError, "EOFError"} :
       Aborts(contents, exception)

\* Line 318: a command of the repository adapter fails while _FilterRev
\* filters the revision's Records.
RepositoryRaises ==
  /\ pc = "revs"
  /\ \E contents \in SeqsUpTo(input_nodes, recs_left) :
       /\ ConsultsRepo(opts, revhdr.revno, contents)
       /\ Aborts(contents, "CalledProcessError")

Next == \/ ReadPrologue
        \/ PrologueEOF
        \/ FirstRevision
        \/ FilterRevision
        \/ FilterRevisionRaises
        \/ ReadRecordRaises
        \/ RepositoryRaises

---------------------------------------------------------------------------
(* Spec: a dump of plain records, every option but the externals map.      *)

NoActions == [r \in {} |-> {}]
NoDeletes == [r \in {} |-> <<>>]

\* The include lists: none, or the one pattern a/b.
IncludeAB == << <<RegexA, RegexB>> >>

FileAdd(path, source, text, props) ==
  LET r == [Record(path, "add", "file", source) EXCEPT
              !.text = text,
              !.md5 = IF text = None THEN Absent ELSE Md5(text)]
  IN IF props = NoEntries THEN r ELSE [r EXCEPT !.hasprops = TRUE, !.props = props]

Copy(r, cfpath, cfrev) ==
  [r EXCEPT !.hascopy = TRUE, !.cfpath = cfpath, !.cfrev = cfrev]

\* The node records of the dump: with the pattern a/b, a/b is included, a is
\* a parent of it and b is excluded.
DumpNodes ==
  { ReadRecord(FileAdd(pAB, DUMP, "t1", Props1)),
    ReadRecord(Record(pAB, "delete", Absent, DUMP)),
    ReadRecord([Record(pAB, "change", "file", DUMP) EXCEPT
                  !.text = "t2", !.md5 = Md5("t2")]),
    ReadRecord([Record(pA, "add", "dir", DUMP) EXCEPT
                  !.hasprops = TRUE, !.props = Props1]),
    ReadRecord(FileAdd(pB, DUMP, "t1", NoEntries)),
    ReadRecord(Copy(FileAdd(pAB, DUMP, None, NoEntries), pB, 1)) }

DumpOptions ==
  [ includes : {<<>>, IncludeAB},
    drop_empty_revs : BOOLEAN,
    externals_map : {FALSE},
    delete_properties : {{}},
    truncate_revs : {{}, {1}},
    drop_actions : {NoActions, [r \in {1} |-> {pAB}]},
    force_delete : {NoDeletes, [r \in {1} |-> <<pAB, pB>>]} ]

Init ==
  /\ Constructed(DumpOptions, {RevmapNone, RevmapEmpty}, DumpNodes,
                 0..MaxRevs, {QuietRepo}, 0..Len(PrologueRecords),
                 MaxRevs, MaxRecs)
  /\ IdlePath
  /\ IdleFlatten
  /\ IdleDiff
  /\ IdleProps
  /\ IdleUrl
  /\ IdleGrab
  /\ IdleRecord

---------------------------------------------------------------------------
(* SpecRenumber: a dump filtered by path with --drop-empty-revs and        *)
(* --renumber-revs, its copies pointing at earlier revisions.              *)

\* An add at the included path and one at an excluded path, copies within
\* the included path from the revisions 0 to MaxRevs, and a copy from the
\* excluded path.
RenumberNodes ==
  { ReadRecord(FileAdd(pAB, DUMP, "t1", Props1)),
    ReadRecord(FileAdd(pB, DUMP, None, NoEntries)),
    ReadRecord(Copy(FileAdd(pAB, DUMP, None, NoEntries), pB, 0)) }
  \cup {ReadRecord(Copy(FileAdd(pABA, DUMP, None, NoEntries), pAB, n)) :
          n \in 0..MaxRevs}

RenumberOptions ==
  [ includes : {IncludeAB},
    drop_empty_revs : {TRUE},
    externals_map : {FALSE},
    delete_properties : {{}},
    truncate_revs : {{}, {1}},
    drop_actions : {NoActions},
    force_delete : {NoDeletes} ]

InitRenumber ==
  /\ Constructed(RenumberOptions, {RevmapEmpty}, RenumberNodes,
                 0..MaxRevs, {QuietRepo}, 0..Len(PrologueRecords),
                 MaxRevs, MaxRecs)
  /\ IdlePath
  /\ IdleFlatten
  /\ IdleDiff
  /\ IdleProps
  /\ IdleUrl
  /\ IdleGrab
  /\ IdleRecord

---------------------------------------------------------------------------
(* SpecCopy: a dump with copies and svn:externals, filtered by path, with  *)
(* externals internalized and properties deleted.                          *)

CopyNodes ==
  { ReadRecord(Copy(FileAdd(pAB, DUMP, None, NoEntries), pB, 1)),
    ReadRecord(Copy(FileAdd(pAB, DUMP, "t2", NoEntries), pB, 1)),
    ReadRecord(Copy([Record(pA, "add", "dir", DUMP) EXCEPT
                       !.hasprops = TRUE, !.props = Props1], pA, 1)),
    ReadRecord(Copy(Record(pA, "add", "dir", DUMP), pB, 1)),
    ReadRecord(Copy(FileAdd(pABA, DUMP, None, NoEntries), pAB, 1)),
    ReadRecord([Record(pA, "change", "dir", DUMP) EXCEPT
                  !.hasprops = TRUE,
                  !.props = [n \in {"svn:externals"} |-> "ext"]]),
    ReadRecord([Record(pAB, "change", "file", DUMP) EXCEPT
                  !.hasprops = TRUE, !.props = PropsDel, !.pdelta = "true"]),
    ReadRecord(Record(pAB, "delete", Absent, DUMP)) }

CopyOptions ==
  [ includes : {<<>>, IncludeAB, << <<RegexA>> >>},
    drop_empty_revs : {FALSE},
    externals_map : BOOLEAN,
    delete_properties : {{}, {"p", "svn:log"}},
    truncate_revs : {{}},
    drop_actions : {NoActions},
    force_delete : {NoDeletes} ]

InitCopy ==
  /\ Constructed(CopyOptions, {RevmapNone}, CopyNodes, 1..MaxCopyRevs, Repos,
                 {Len(PrologueRecords)}, MaxCopyRevs, MaxCopyRecs)
  /\ IdlePath
  /\ IdleFlatten
  /\ IdleDiff
  /\ IdleProps
  /\ IdleUrl
  /\ IdleGrab
  /\ IdleRecord

---------------------------------------------------------------------------
(* SpecFlatten: one call of _FlattenMultipleActions, a Flatten per step.   *)

\* The Records a list handed to _FlattenMultipleActions is drawn from.
FlatAdds ==
  {FileAdd(pA, src, t, pr) : src \in {DUMP, EXTERNALS}, t \in {None, "t1"},
                              pr \in {NoEntries, Props1}}
    \cup {[FileAdd(pA, DUMP, "t1", NoEntries) EXCEPT !.sha1 = Sha1("t1")]}
FlatDeletes == {Record(pA, "delete", Absent, src) : src \in {DUMP, EXTERNALS}}
FlatChanges ==
  LET c == Record(pA, "change", "file", DUMP) IN
  { c,
    [c EXCEPT !.hasprops = TRUE, !.props = PropsDel, !.pdelta = "true"],
    [c EXCEPT !.text = "t2"],
    [c EXCEPT !.text = "t2", !.md5 = Md5("t2"), !.hasprops = TRUE, !.props = Props2],
    [c EXCEPT !.text = "t2", !.tdelta = "true"] }
FlatReplaces == {Record(pA, "replace", "file", DUMP)}
FlatOthers == {Record(pB, "add", "dir", DUMP), Record(pB, "delete", Absent, DUMP)}
FlatRecords == FlatAdds \cup FlatDeletes \cup FlatChanges \cup FlatReplaces \cup FlatOthers

InitFlatten ==
  /\ flat_in \in SeqsUpTo(FlatRecords, MaxFlat)
  /\ flat = FlatStart(flat_in)
  /\ IdlePath
  /\ IdleFilter
  /\ IdleDiff
  /\ IdleProps
  /\ IdleUrl
  /\ IdleGrab
  /\ IdleRecord

\* A Flatten that returns.
FlattenCall ==
  /\ flat.status = Running
  /\ \E p \in Eligible(flat) :
       /\ FlattenIteration(flat, p).status = Running
       /\ flat' = FlattenIteration(flat, p)
  /\ UNCHANGED <<flat_in, pathVars, filterVars, otherVars>>

\* A Flatten that raises: the exception leaves _FlattenMultipleActions.
FlattenRaise ==
  /\ flat.status = Running
  /\ \E p \in Eligible(flat) :
       /\ FlattenIteration(flat, p).status # Running
       /\ flat' = FlattenIteration(flat, p)
  /\ UNCHANGED <<flat_in, pathVars, filterVars, otherVars>>

\* No path has two Records left: _FlattenMultipleActions returns.
FlattenReturn ==
  /\ flat.status = Running
  /\ Eligible(flat) = {}
  /\ flat' = [flat EXCEPT !.status = Returned]
  /\ UNCHANGED <<flat_in, pathVars, filterVars, otherVars>>

NextFlatten == FlattenCall \/ FlattenRaise \/ FlattenReturn

\* The Records of the lists whose flattening is followed to its end: for
\* each action and origin the dispatch of Flatten tells apart, one Record,
\* and a change that MergeChange refuses.
LiveRecords ==
  { FileAdd(pA, DUMP, "t1", Props1),
    FileAdd(pA, EXTERNALS, None, NoEntries),
    Record(pA, "change", "file", DUMP),
    [Record(pA, "change", "file", DUMP) EXCEPT !.text = "t2", !.tdelta = "true"] }
    \cup FlatDeletes \cup FlatReplaces \cup FlatOthers

InitFlattenLive ==
  /\ flat_in \in SeqsUpTo(LiveRecords, MaxFlat)
  /\ flat = FlatStart(flat_in)
  /\ IdlePath
  /\ IdleFilter
  /\ IdleDiff
  /\ IdleProps
  /\ IdleUrl
  /\ IdleGrab
  /\ IdleRecord

---------------------------------------------------------------------------
(* SpecPath: a PathFilter is constructed, then CheckPath is called.        *)

InitPath ==
  /\ IdleFlatten
  /\ IdleFilter
  /\ IdleDiff
  /\ IdleProps
  /\ IdleUrl
  /\ IdleGrab
  /\ IdleRecord
  /\ pf_includes \in PatternLists
  /\ pf_path = <<>>
  /\ pf_result = NO
  /\ pf_called = FALSE

CheckPathCall ==
  \E path \in RawPaths :
    /\ pf_path' = path
    /\ pf_result' = CheckPath(pf_includes, path)
    /\ pf_called' = TRUE
    /\ UNCHANGED <<pf_includes, flatVars, filterVars, otherVars>>

NextPath == CheckPathCall

---------------------------------------------------------------------------
(* SpecDiff: externals.Diff is called on two dicts of descriptions.        *)

\* The destination paths of the externals.
ExtNames == <<"b", "c", "d">>
DstPaths == {<<ExtNames[i]>> : i \in 1..MaxExts}

\* The descriptions an external at dstpath may have: the operative revision
\* given or left to the peg revision, the peg revision given or not.
Descriptions(dstpath) ==
  {ExternalsDescription(dstpath, srcrepo, srcrev, pB, srcpeg) :
     srcrepo \in {MainRepo, OtherRepo}, srcrev \in {NoRev, 2},
     srcpeg \in {NoRev, 1}}

\* The dicts of descriptions, each key the dstpath of its value.
ExternalsDicts ==
  UNION {{f \in [D -> UNION {Descriptions(d) : d \in D}] :
            \A d \in D : f[d].dstpath = d} : D \in SUBSET DstPaths}

InitDiff ==
  /\ diff_old \in ExternalsDicts
  /\ diff_new \in ExternalsDicts
  /\ diff_peg \in BOOLEAN
  /\ diff_out = NoDiff
  /\ diff_called = FALSE
  /\ IdlePath
  /\ IdleFlatten
  /\ IdleFilter
  /\ IdleProps
  /\ IdleUrl
  /\ IdleGrab
  /\ IdleRecord

DiffCall ==
  /\ ~diff_called
  /\ diff_out' = Diff(diff_old, diff_new, diff_peg)
  /\ diff_called' = TRUE
  /\ UNCHANGED <<diff_old, diff_new, diff_peg, pathVars, flatVars, filterVars,
                 propsVars, urlVars, grabVars, recordVars>>

NextDiff == DiffCall

---------------------------------------------------------------------------
(* _ParseProps on its own: a property block, well formed or malformed in   *)
(* one place, is parsed once.                                              *)

\* The characters of a length line or of a content, with its newline.
Line(chars) == Append(chars, NL)

\* The entries a block is written with: a value of no or one character
\* under a name of one character, or that name marked as deleted.
PropEntries ==
  {<<"K", " ", "1">>} \X {<<"a">>, <<"b">>} \X {<<"0">>, <<"1">>}
    \cup {<<"D", " ", "1">>} \X {<<"a">>}

\* The characters of one entry, as svndump.Record._GeneratePropText writes
\* them.
EntryText(e) ==
  IF Len(e) = 2 THEN Line(e[1]) \o Line(e[2])
  ELSE Line(e[1]) \o Line(e[2])
       \o Line(<<"V", " ">> \o e[3])
       \o Line(IF e[3] = <<"1">> THEN <<"v">> ELSE <<>>)

RECURSIVE EntriesText(_)
EntriesText(es) ==
  IF es = <<>> THEN <<>> ELSE EntryText(Head(es)) \o EntriesText(Tail(es))

Trailer == Line(PropsEnd)

\* Replace the character at Python index i by the characters chars.
Replace(text, i, chars) ==
  SubSeq(text, 1, i) \o chars \o SubSeq(text, i + 2, Len(text))

\* The indices where every entry starts and where its length digits are.
PrefixAt(body) ==
  {i \in 0..(Len(body) - 1) :
     /\ body[i + 1] \in {"K", "D", "V"}
     /\ (i = 0 \/ body[i] = NL)}
LengthAt(body) == {i + 2 : i \in PrefixAt(body)}

\* The blocks of each kind of malformation, made from the well-formed block
\* whose entries are body: an entry prefix that is none of K, D and V, a
\* length that is no number, a length of 99 where the block is shorter, no
\* trailer, and characters after the trailer.
Malformed(body) ==
  [none |-> {body \o Trailer},
   prefix |-> {Replace(body, i, <<"Z">>) \o Trailer : i \in PrefixAt(body)},
   nonnumeric |-> {Replace(body, i, <<"x">>) \o Trailer : i \in LengthAt(body)},
   pastend |-> {Replace(body, i, <<"9", "9">>) \o Trailer : i \in LengthAt(body)},
   notrailer |-> {body},
   trailing |-> {body \o Trailer \o <<"x">>, body \o Trailer \o Trailer}]

MalformedKinds == {"none", "prefix", "nonnumeric", "pastend", "notrailer", "trailing"}

PropBodies ==
  {EntriesText(es) : es \in UNION {[1..n -> PropEntries] : n \in 0..MaxProps}}

InitProps ==
  /\ pp_kind \in MalformedKinds
  /\ pp_text \in UNION {Malformed(body)[pp_kind] : body \in PropBodies}
  /\ pp_out = Raised("none")
  /\ pp_called = FALSE
  /\ IdlePath
  /\ IdleFlatten
  /\ IdleFilter
  /\ IdleDiff
  /\ IdleUrl
  /\ IdleGrab
  /\ IdleRecord

ParsePropsCall ==
  /\ ~pp_called
  /\ pp_out' = ParseProps(pp_text)
  /\ pp_called' = TRUE
  /\ UNCHANGED <<pp_text, pp_kind, pathVars, flatVars, filterVars, diffVars,
                 urlVars, grabVars, recordVars>>

NextProps == ParsePropsCall

---------------------------------------------------------------------------
(* _FindExternalPath on its own: a URL is looked up once in a map.         *)

UrlChars == {"a", "b", "/"}
Urls == UNION {[1..n -> UrlChars] : n \in 0..MaxUrl}
UrlPrefixes == {<<"a">>, <<"a", "/", "b">>, <<"a", "b">>, <<"b">>}
UrlRepos == {"/repoA", "/repoB"}

\* The maps: a dict holds a key once, and yields its items in any order.
ExternalsMaps ==
  {m \in UNION {[1..n -> [prefix : UrlPrefixes, repo : UrlRepos]] :
                  n \in 0..MaxMap} :
     \A i, j \in 1..Len(m) : m[i].prefix = m[j].prefix => i = j}

InitUrl ==
  /\ fe_url \in Urls
  /\ fe_map \in ExternalsMaps
  /\ fe_out = [status |-> "none", repo |-> "", path |-> <<>>]
  /\ fe_called = FALSE
  /\ IdlePath
  /\ IdleFlatten
  /\ IdleFilter
  /\ IdleDiff
  /\ IdleProps
  /\ IdleGrab
  /\ IdleRecord

FindExternalPathCall ==
  /\ ~fe_called
  /\ fe_out' = FindExternalPath(fe_url, fe_map)
  /\ fe_called' = TRUE
  /\ UNCHANGED <<fe_url, fe_map, pathVars, flatVars, filterVars, diffVars,
                 propsVars, grabVars, recordVars>>

NextUrl == FindExternalPathCall

---------------------------------------------------------------------------
(* SpecGrab: svndumpgrab's main, a record of stdin per step.               *)

\* The arguments: none, a number, a range, or a number and a range.
GrabRanges ==
  {r \in {Range(first, last) : first \in 0..MaxGrabRev, last \in 0..MaxGrabRev} :
     r[1] <= r[2]}
GrabArgs ==
  {<<>>} \cup {<<Single(n)>> : n \in 0..MaxGrabRev}
         \cup {<<r>> : r \in GrabRanges}
         \cup {<<Single(n), r>> : n \in 0..MaxGrabRev, r \in GrabRanges}

\* The inputs: node records, each its own, and revision headers whose
\* numbers ascend.
Ascending(input) ==
  \A i, j \in 1..Len(input) :
    i < j /\ input[i].rev /\ input[j].rev => input[i].revno < input[j].revno
GrabInputs ==
  {input \in UNION {[1..n -> {GrabNode(0)} \cup
                              {GrabHeader(r) : r \in 0..MaxGrabRev}] :
                      n \in 0..MaxGrabLen} : Ascending(input)}
Numbered(input) ==
  [i \in 1..Len(input) |->
     IF input[i].rev THEN input[i] ELSE GrabNode(i)]

\* main up to its loop, lines 20-30.
InitGrab ==
  /\ gr_arg \in GrabArgs
  /\ gr_input \in {Numbered(input) : input \in GrabInputs}
  /\ gr_pos = 0
  /\ gr_revnum = NoRev
  /\ gr_action_num = NoRev
  /\ gr_out = <<>>
  /\ gr_pc = "loop"
  /\ IdlePath
  /\ IdleFlatten
  /\ IdleFilter
  /\ IdleDiff
  /\ IdleProps
  /\ IdleUrl
  /\ IdleRecord

\* Lines 32-39: the record read is a revision header.
GrabRevision ==
  /\ gr_pc = "loop"
  /\ gr_pos < Len(gr_input)
  /\ gr_input[gr_pos + 1].rev
  /\ LET record == gr_input[gr_pos + 1]
         revs == GrabRevs(gr_arg)
     IN /\ gr_revnum' = record.revno
        /\ gr_action_num' = 0
        /\ gr_pos' = gr_pos + 1
        /\ IF Includes(revs, record.revno)
           THEN gr_out' = Append(gr_out, record) /\ gr_pc' = "loop"
           ELSE /\ gr_out' = gr_out
                /\ gr_pc' = IF record.revno > MaxRev(revs) THEN "done"
                            ELSE "loop"
  /\ UNCHANGED <<gr_arg, gr_input>>
  /\ UNCHANGED <<pathVars, flatVars, filterVars, diffVars, propsVars, urlVars,
                 recordVars>>

\* Lines 40-45: the record read is no revision header.
GrabRecord ==
  /\ gr_pc = "loop"
  /\ gr_pos < Len(gr_input)
  /\ ~gr_input[gr_pos + 1].rev
  /\ gr_pos' = gr_pos + 1
  /\ IF gr_revnum # NoRev /\ Includes(GrabRevs(gr_arg), gr_revnum)
     THEN /\ gr_out' = Append(gr_out, Tagged(gr_input[gr_pos + 1], gr_action_num))
          /\ gr_action_num' = gr_action_num + 1
     ELSE UNCHANGED <<gr_out, gr_action_num>>
  /\ UNCHANGED <<gr_arg, gr_input, gr_revnum, gr_pc>>
  /\ UNCHANGED <<pathVars, flatVars, filterVars, diffVars, propsVars, urlVars,
                 recordVars>>

\* Line 31 at the end of stdin: ReadRecord has returned None.
GrabEOF ==
  /\ gr_pc = "loop"
  /\ gr_pos = Len(gr_input)
  /\ gr_pc' = "done"
  /\ UNCHANGED <<gr_arg, gr_input, gr_pos, gr_revnum, gr_action_num, gr_out>>
  /\ UNCHANGED <<pathVars, flatVars, filterVars, diffVars, propsVars, urlVars,
                 recordVars>>

NextGrab == GrabRevision \/ GrabRecord \/ GrabEOF

---------------------------------------------------------------------------
(* SpecRecord: one call of _FilterRecord on a Record of the dump that has  *)
(* no copy headers.                                                        *)

\* The Records: every action on a file or a directory at an included path,
\* at a parent of one and at an excluded path, with and without a text and
\* properties.
PlainRecords ==
  {ReadRecord(FileAdd(path, DUMP, text, props)) :
     path \in {pA, pAB, pB}, text \in {None, "t1"}, props \in {NoEntries, Props1}}
  \cup {ReadRecord([Record(path, "add", "dir", DUMP) EXCEPT
                      !.hasprops = (props # NoEntries), !.props = props]) :
          path \in {pA, pAB, pB},
          props \in {NoEntries, Props1, [n \in {"svn:externals"} |-> "ext"]}}
WithAction(records, action) ==
  {[r EXCEPT !.action = action] : r \in records}
PlainDeletes ==
  {ReadRecord(Record(path, "delete", Absent, DUMP)) : path \in {pA, pAB, pB}}
\* Directories whose property block is empty, is a delta, or deletes
\* svn:externals.
DeltaRecords ==
  {ReadRecord([Record(pA, action, "dir", DUMP) EXCEPT
                 !.hasprops = TRUE, !.props = props, !.pdelta = pdelta]) :
     action \in {"add", "change", "replace"},
     props \in {NoEntries, Props1, [n \in {"svn:externals"} |-> Tomb]},
     pdelta \in {Absent, "true", "false"}}
\* Copies: of a file into the included path, from an excluded path and from
\* the included one, with and without a text of its own, and of a directory
\* from an excluded path into the parent path and into the included one.
CopyRecords ==
  {ReadRecord([Copy(FileAdd(pAB, DUMP, text, NoEntries), src, 1) EXCEPT
                 !.action = action,
                 !.csmd5 = Md5("t1"), !.cssha1 = Sha1("t1")]) :
     text \in {None, "t2"}, src \in {pB, pAB}, action \in {"add", "replace"}}
  \cup {ReadRecord(Copy(Record(dst, "add", "dir", DUMP), pB, 1)) :
          dst \in {pA, pAB}}
RecordInputs ==
  PlainRecords \cup WithAction(PlainRecords, "change")
               \cup WithAction(PlainRecords, "replace") \cup PlainDeletes
               \cup DeltaRecords \cup CopyRecords

\* A directory behind an external and what svn diff says of it between two
\* revisions: a and e modified, b with new properties only, d added, c and
\* g deleted, f and the directory itself as they were.
TreeMixed ==
  << [rel |-> <<>>, kind |-> "dir", text |-> None, props |-> Props1],
     [rel |-> <<"a">>, kind |-> "file", text |-> "t1", props |-> Props1],
     [rel |-> <<"b">>, kind |-> "file", text |-> "t1", props |-> Props1],
     [rel |-> <<"d">>, kind |-> "file", text |-> "t2", props |-> Props2],
     [rel |-> <<"e">>, kind |-> "file", text |-> "t2", props |-> Props1],
     [rel |-> <<"f">>, kind |-> "file", text |-> "t1", props |-> NoEntries] >>
DiffMixed ==
  [p \in {<<"a">>, <<"b">>, <<"c">>, <<"d">>, <<"e">>, <<"g">>} |->
     CASE p = <<"a">> -> <<"modify", "modify">>
       [] p = <<"b">> -> <<NoOp, "modify">>
       [] p = <<"d">> -> <<"add", NoOp>>
       [] p = <<"e">> -> <<"modify", NoOp>>
       [] OTHER -> <<"delete", NoOp>>]
MixedRepo ==
  [ tree |-> TreeMixed, diff |-> DiffMixed,
    prev_ext |-> External(OtherRepo, 1, pB),
    new_ext |-> External(OtherRepo, 2, pB) ]

\* Before _FilterRecord is called.
InitRecord ==
  /\ fr_opts \in [includes : {<<>>, IncludeAB, << <<RegexA>> >>},
                   externals_map : BOOLEAN]
  /\ fr_record \in RecordInputs
  /\ fr_repo \in {QuietRepo,
                   [QuietRepo EXCEPT !.new_ext = External(OtherRepo, 1, pB)],
                   MixedRepo}
  /\ fr_out = <<>>
  /\ fr_called = FALSE
  /\ IdlePath
  /\ IdleFlatten
  /\ IdleFilter
  /\ IdleDiff
  /\ IdleProps
  /\ IdleUrl
  /\ IdleGrab

FilterRecordCall ==
  /\ ~fr_called
  /\ fr_out' = FilterRecord(fr_opts, fr_record, fr_repo)
  /\ fr_called' = TRUE
  /\ UNCHANGED <<fr_opts, fr_record, fr_repo>>
  /\ UNCHANGED <<pathVars, flatVars, filterVars, diffVars, propsVars, urlVars,
                 grabVars>>

NextRecord == FilterRecordCall

---------------------------------------------------------------------------
(* The specifications.                                                     *)

vars == <<pathVars, flatVars, filterVars, otherVars>>

Spec == Init /\ [][Next]_vars

SpecCopy == InitCopy /\ [][Next]_vars

SpecRenumber == InitRenumber /\ [][Next]_vars

SpecPath == InitPath /\ [][NextPath]_vars

SpecFlatten == InitFlatten /\ [][NextFlatten]_vars

\* The loops of _FlattenMultipleActions are sequential code: while a step is
\* possible the interpreter takes it.
SpecFlattenLive ==
  InitFlattenLive /\ [][NextFlatten]_vars /\ WF_vars(NextFlatten)

SpecDiff == InitDiff /\ [][NextDiff]_vars

SpecProps == InitProps /\ [][NextProps]_vars

SpecUrl == InitUrl /\ [][NextUrl]_vars

SpecGrab == InitGrab /\ [][NextGrab]_vars

SpecRecord == InitRecord /\ [][NextRecord]_vars

---------------------------------------------------------------------------
(* C1                                                                      *)

\* The positions of the contents list whose Record has Node-path p.
PositionsOf(st, p) ==
  {i \in 1..Len(st.contents) : st.objs[st.contents[i]].path = p}

\* C1: when _FlattenMultipleActions returns without raising, every Node-path
\* occurs in at most one Record of the list, or in two, a delete followed by
\* an add, on a path that MoveDeleteToBeforeAdd reordered.
C1_OneRecordPerPath ==
  flat.status = Returned =>
    \A p \in {r.path : r \in FlatRecords} :
      LET at == PositionsOf(flat, p) IN
      \/ Cardinality(at) <= 1
      \/ /\ Cardinality(at) = 2
         /\ p \in flat.moved
         /\ \E i, j \in at :
              /\ i < j
              /\ flat.objs[flat.contents[i]].action = "delete"
              /\ flat.objs[flat.contents[j]].action = "add"

\* Three Records on one path, among them an externals add followed by a dump
\* delete, have been flattened into one.
C1_Witness ==
  /\ flat.status = Returned
  /\ Len(flat_in) = MaxFlat
  /\ \A i \in 1..Len(flat_in) : flat_in[i].path = pA
  /\ pA \in flat.moved
  /\ Cardinality(PositionsOf(flat, pA)) = 1

---------------------------------------------------------------------------
(* C2                                                                      *)

\* The pairs (first action, second action) the matrix marks ERR.
ErrPairs ==
  { <<"delete", "delete">>, <<"delete", "change">>, <<"delete", "replace">>,
    <<"add", "replace">>, <<"change", "delete">>, <<"change", "add">>,
    <<"change", "replace">>, <<"replace", "delete">>, <<"replace", "add">>,
    <<"replace", "replace">> }

\* The first two Records of the path a Flatten step worked on, as they were
\* before the step.
FirstOf(st, p) == st.objs[st.groups[p][1]]
SecondOf(st, p) == st.objs[st.groups[p][2]]

---------------------------------------------------------------------------
(* C3                                                                      *)

\* No operation is enabled.
NoOperations ==
  /\ opts.includes = <<>>
  /\ opts.truncate_revs = {}
  /\ DOMAIN opts.drop_actions = {}
  /\ DOMAIN opts.force_delete = {}
  /\ opts.delete_properties = {}
  /\ ~opts.externals_map
  /\ ~opts.drop_empty_revs
  /\ ~revmap.given

\* Two records with the same action, headers, properties and text, the
\* length and checksum headers apart.
SameRecord(a, b) ==
  LET Bare(r) == [r EXCEPT !.source = DUMP, !.pcl = NoLen, !.tcl = NoLen,
                           !.cl = NoLen, !.md5 = Absent, !.sha1 = Absent]
  IN Bare(a) = Bare(b)

\* An iteration of the revision loop has completed on a revision.
RevisionDone == pc \in {"revs", "done"} /\ rev_in # NoRecord

\* C3: with no operation enabled, what Filter writes for a revision is the
\* revision's header and records as they were read, in their order.
C3_NoOperationsIdentity ==
  (NoOperations /\ rev_in # NoRecord) =>
    LET read == <<rev_in>> \o contents_in IN
    /\ Len(written) = Len(read)
    /\ \A i \in 1..Len(read) : SameRecord(written[i], read[i])

---------------------------------------------------------------------------
(* C4                                                                      *)

\* The copy source of r is included, or is r's own path, a parent of an
\* included path.
ValidCopySource(includes, r) ==
  \/ CheckPath(includes, r.cfpath) = YES
  \/ r.cfpath = r.path /\ CheckPath(includes, r.path) = PARENT

---------------------------------------------------------------------------
(* C6                                                                      *)

\* C6: when a revmap is given (--renumber-revs), the revisions written are
\* numbered 1, 2, 3, ... in the order they are written.
C6_RenumberedFromOne ==
  (revmap.given /\ RevisionDone /\ written # <<>>) =>
    written[1].hasrev /\ written[1].revno = out_revs

---------------------------------------------------------------------------
(* C7                                                                      *)

\* C7: a revision is written iff _FilterRev left it Records or
\* drop_empty_revs is off; a revision that is not written writes nothing;
\* one that is written writes its header and then its own Records (their
\* copy source revisions renumbered by the revmap), before the next revision
\* is read.
C7_WrittenIffNonEmpty ==
  RevisionDone =>
    /\ written # <<>> <=> (filtered # <<>> \/ ~opts.drop_empty_revs)
    /\ written # <<>> =>
         /\ Len(written) = 1 + Len(filtered)
         /\ written[1].hasrev
         /\ written[1].props = rev_in.props
         /\ ~Remapping(revmap) => written[1].revno = rev_in.revno
         /\ \A i \in 1..Len(filtered) :
              /\ ~written[i + 1].hasrev
              /\ SameRecord(written[i + 1], Write(filtered[i], revmap))

\* A revision has been written, and a later one, whose Records were all
\* filtered away, has been dropped.
C7_Witness ==
  /\ RevisionDone
  /\ opts.drop_empty_revs
  /\ contents_in # <<>>
  /\ filtered = <<>>
  /\ written = <<>>
  /\ out_revs > 0

---------------------------------------------------------------------------
(* C8                                                                      *)

\* C8: on an input stream that holds no record, Filter returns without an
\* exception and has written nothing.
C8_EmptyInputCompletes ==
  (~read_any /\ pc # "prologue") =>
    (pc = "done" /\ error = "" /\ written = <<>>)

---------------------------------------------------------------------------
(* C9                                                                      *)

\* C9: what is written for a revision that force_delete names ends with a
\* delete of each path listed for it, in the order listed.
C9_ForcedDeletesLast ==
  (RevisionDone /\ rev_in.revno \in DOMAIN opts.force_delete) =>
    LET paths == opts.force_delete[rev_in.revno]
        n == Len(paths)
        m == Len(written)
    IN /\ m >= n + 1
       /\ \A i \in 1..n :
            /\ written[m - n + i].action = "delete"
            /\ written[m - n + i].path = paths[i]

---------------------------------------------------------------------------
(* C10                                                                     *)

\* C10 as stated: no Record written, the revision headers included, has a
\* property named in delete_properties in its property block.
C10_AsStated ==
  \A i \in 1..Len(written) :
    \A n \in opts.delete_properties : n \notin DOMAIN written[i].props

\* C10 amended: no node Record written, whether read from the dump or made
\* by _FixCopyFrom or _InternalizeExternals, has a property named in
\* delete_properties in its property block, with a value or marked as
\* deleted.
C10_NodeRecordsStripped ==
  \A i \in 1..Len(written) :
    ~written[i].hasrev =>
      \A n \in opts.delete_properties : n \notin DOMAIN written[i].props

\* A change of a/b that marks the property p as deleted has been read, and
\* written without it.
C10_Witness ==
  /\ RevisionDone
  /\ "p" \in opts.delete_properties
  /\ \E j \in 1..Len(contents_in) :
       /\ contents_in[j].path = pAB
       /\ contents_in[j].action = "change"
       /\ "p" \in DOMAIN contents_in[j].props
       /\ contents_in[j].props["p"] = Tomb
  /\ \E i \in 1..Len(written) :
       /\ written[i].path = pAB
       /\ written[i].action = "change"
       /\ written[i].hasprops

---------------------------------------------------------------------------
(* C5                                                                      *)

\* Some pattern matches all of its segments against the leading components
\* of the path, which is at least as long as the pattern.
FullMatch(includes, parts) ==
  \E i \in 1..Len(includes) :
    MatchMe(includes[i], parts) /\ Len(parts) >= Len(includes[i])

\* Some pattern matches the path as far as the path goes, and the path is
\* shorter than the pattern.
PartialMatch(includes, parts) ==
  \E i \in 1..Len(includes) :
    MatchMe(includes[i], parts) /\ Len(parts) < Len(includes[i])

\* The include list reordered by the permutation f of its indices.
Permuted(includes, f) == [i \in 1..Len(includes) |-> includes[f[i]]]

\* C5 as stated: INCLUDED iff a pattern fully matches (or there is no
\* pattern), PARENT_OF_INCLUDED iff some pattern matches a path shorter than
\* itself, EXCLUDED otherwise, whatever the order of the patterns.
C5_AsStated ==
  pf_called =>
    LET parts == Parts(pf_path) IN
    /\ pf_result = YES <=> (pf_includes = <<>> \/ FullMatch(pf_includes, parts))
    /\ pf_result = PARENT <=> PartialMatch(pf_includes, parts)
    /\ pf_result = NO <=>
         ~(pf_includes = <<>> \/ FullMatch(pf_includes, parts)
           \/ PartialMatch(pf_includes, parts))
    /\ \A f \in Permutations(1..Len(pf_includes)) :
         CheckPath(Permuted(pf_includes, f), pf_path) = pf_result

\* C5 amended: CheckPath is INCLUDED iff there is no pattern or some pattern
\* fully matches; PARENT_OF_INCLUDED iff no pattern fully matches and some
\* pattern matches a path shorter than itself; EXCLUDED otherwise; the
\* verdict is one of the three and is the same for every order of the
\* patterns.
C5_CheckPathVerdict ==
  pf_called =>
    LET parts == Parts(pf_path)
        full == pf_includes = <<>> \/ FullMatch(pf_includes, parts)
        part == PartialMatch(pf_includes, parts)
    IN /\ pf_result \in {YES, PARENT, NO}
       /\ pf_result = YES <=> full
       /\ pf_result = PARENT <=> (~full /\ part)
       /\ pf_result = NO <=> (~full /\ ~part)
       /\ \A f \in Permutations(1..Len(pf_includes)) :
            CheckPath(Permuted(pf_includes, f), pf_path) = pf_result

\* A path that one pattern includes and that is a proper prefix of another
\* pattern, listed first: the verdict is INCLUDED.
C5_Witness ==
  /\ pf_called
  /\ pf_result = YES
  /\ Len(pf_includes) = 2
  /\ PartialMatch(pf_includes, Parts(pf_path))
  /\ MatchMe(pf_includes[1], Parts(pf_path))
  /\ Len(Parts(pf_path)) < Len(pf_includes[1])

---------------------------------------------------------------------------
(* C13                                                                     *)

\* The classes the destination path d is reported in.
InAdded(out, d) == \E i \in 1..Len(out.added) : out.added[i].dstpath = d
InChanged(out, d) ==
  \E i \in 1..Len(out.changed) : out.changed[i][2].dstpath = d
InDeleted(out, d) == \E i \in 1..Len(out.deleted) : out.deleted[i].dstpath = d

\* d is in neither list: Diff holds its external for unchanged.
InUnchanged(out, d) == ~InAdded(out, d) /\ ~InChanged(out, d) /\ ~InDeleted(out, d)

\* How many of the three lists name d.
TimesReported(out, d) ==
  (IF InAdded(out, d) THEN 1 ELSE 0) + (IF InChanged(out, d) THEN 1 ELSE 0)
    + (IF InDeleted(out, d) THEN 1 ELSE 0)

\* Every changed pair is the old and the new description of one destination
\* path and the two have the same srcrepo.
ChangedPairsShareRepo(old, new, out) ==
  \A i \in 1..Len(out.changed) :
    LET pair == out.changed[i] IN
    /\ pair[1].dstpath = pair[2].dstpath
    /\ pair[1].dstpath \in DOMAIN old \cap DOMAIN new
    /\ pair[1] = old[pair[1].dstpath]
    /\ pair[2] = new[pair[2].dstpath]
    /\ pair[1].srcrepo = pair[2].srcrepo

\* The two descriptions of d differ in the peg revision at most.
SameButPeg(old, new, d) ==
  /\ d \in DOMAIN old \cap DOMAIN new
  /\ [old[d] EXCEPT !.srcpeg = NoRev] = [new[d] EXCEPT !.srcpeg = NoRev]

\* d had an external of one repository and has one of another.
MovedRepo(old, new, d) ==
  d \in DOMAIN old \cap DOMAIN new /\ old[d].srcrepo # new[d].srcrepo

\* C13 as stated: Diff reports no destination path of old and new in two of
\* the classes added, changed, deleted and unchanged; the descriptions of a
\* changed pair have the same srcrepo; descriptions that differ in the peg
\* revision only are unchanged unless include_peg is set.
C13_AsStated ==
  diff_called =>
    /\ \A d \in DOMAIN diff_old \cup DOMAIN diff_new :
         /\ TimesReported(diff_out, d) <= 1
         /\ (SameButPeg(diff_old, diff_new, d) /\ ~diff_peg)
              => InUnchanged(diff_out, d)
    /\ ChangedPairsShareRepo(diff_old, diff_new, diff_out)

\* C13 amended: a destination path whose external moved from one repository
\* to another is reported twice, its old description in deleted and its new
\* one in added; every other destination path of old and new is in exactly
\* one of the classes: added when only new has it, deleted when only old has
\* it, changed when srcpath or srcrev (or, with include_peg, srcpeg) differ,
\* unchanged otherwise.  The descriptions of a changed pair have the same
\* srcrepo, and descriptions that differ in the peg revision only are
\* unchanged unless include_peg is set.
C13_DiffClasses ==
  diff_called =>
    /\ \A d \in DOMAIN diff_old \cup DOMAIN diff_new :
         /\ MovedRepo(diff_old, diff_new, d) =>
              /\ InAdded(diff_out, d) /\ InDeleted(diff_out, d)
              /\ ~InChanged(diff_out, d)
         /\ ~MovedRepo(diff_old, diff_new, d) =>
              /\ TimesReported(diff_out, d) <= 1
              /\ InAdded(diff_out, d) <=> d \notin DOMAIN diff_old
              /\ InDeleted(diff_out, d) <=> d \notin DOMAIN diff_new
              /\ InChanged(diff_out, d) <=>
                   /\ d \in DOMAIN diff_old \cap DOMAIN diff_new
                   /\ \/ diff_old[d].srcpath # diff_new[d].srcpath
                      \/ diff_old[d].srcrev # diff_new[d].srcrev
                      \/ diff_peg /\ diff_old[d].srcpeg # diff_new[d].srcpeg
         /\ (SameButPeg(diff_old, diff_new, d) /\ ~diff_peg)
              => InUnchanged(diff_out, d)
    /\ ChangedPairsShareRepo(diff_old, diff_new, diff_out)
    /\ Len(diff_out.added) + Len(diff_out.changed) + Len(diff_out.deleted)
         <= 2 * Cardinality(DOMAIN diff_old \cup DOMAIN diff_new)

\* Diff, called without include_peg, has left alone an external whose
\* descriptions differ in the peg revision.
C13_Witness ==
  /\ diff_called
  /\ ~diff_peg
  /\ \E d \in DOMAIN diff_old \cap DOMAIN diff_new :
       /\ SameButPeg(diff_old, diff_new, d)
       /\ diff_old[d].srcpeg # diff_new[d].srcpeg
       /\ InUnchanged(diff_out, d)


---------------------------------------------------------------------------
(* C11                                                                     *)

\* The length headers of the record w agree with the blocks written for it.
LengthsAgree(w) ==
  LET proptext == GeneratePropText(w)
      has_props == proptext # <<>>
      has_text == w.text # None
  IN /\ (w.pcl # NoLen) <=> has_props
     /\ has_props => w.pcl = Len(proptext)
     /\ (w.tcl # NoLen) <=> has_text
     /\ has_text => w.tcl = TextLen(w.text)
     /\ ~has_text => w.md5 = Absent /\ w.sha1 = Absent /\ w.tdelta = Absent
     /\ (w.cl # NoLen) <=> (has_props \/ has_text)
     /\ (has_props \/ has_text) =>
          w.cl = Len(proptext) + (IF has_text THEN TextLen(w.text) ELSE 0)

\* C11: every record written has Prop-content-length iff a property block
\* is written for it, equal to the block's length; Text-content-length iff
\* it has a text, equal to the text's length, and without a text none of
\* Text-content-md5, Text-content-sha1 and Text-delta; Content-length iff
\* it has either block, equal to the sum of the two lengths.
C11_LengthHeaders ==
  \A i \in 1..Len(written) : LengthsAgree(written[i])

\* A file made from the repository for a copy has been written with its
\* text and with a property block that delete_properties has emptied.
C11_Witness ==
  /\ RevisionDone
  /\ \E i \in 1..Len(written) :
       /\ written[i].source = COPY
       /\ written[i].text # None
       /\ written[i].hasprops
       /\ DOMAIN written[i].props = {}
       /\ written[i].pcl = 1
       /\ written[i].cl = 1 + TextLen(written[i].text)


---------------------------------------------------------------------------
(* C12: _ParseProps and malformed property blocks.                         *)

\* C12: every malformed property block handed to _ParseProps (an entry
\* prefix that is none of K, D and V, a length that is no number, a length
\* that points past the end of the block, no PROPS-END trailer, characters
\* after the trailer) makes it raise PropsParseError and nothing else.
C12_OnlyPropsParseError ==
  pp_called /\ pp_kind # "none" => pp_out.status = PropsParseError

---------------------------------------------------------------------------
(* C14: a changed external with an unknown revision.                       *)

\* The Records of the revision just filtered that _FilterRecord hands to
\* _InternalizeExternals when the repository answers with repo.
Internalized(repo) ==
  IF ~RevisionDone \/ ~opts.externals_map THEN {}
  ELSE LET copyless ==
             Concat([i \in 1..Len(contents_in) |->
                Copyless(opts.includes,
                         ByInterest(CheckPath(opts.includes, contents_in[i].path),
                                    contents_in[i]),
                         repo.tree)])
       IN {copyless[i] : i \in {j \in 1..Len(copyless) :
                                  ~DoesNotAffectExternals(copyless[j])}}

\* The records _InternalizeExternals synthesizes for record at or under the
\* external pinned at dstpath, for an answer repo of the repository.
SynthesizedFor(record, dstpath, repo) ==
  LET out == InternalizeExternals(opts.includes, record, repo)
      dst == record.path \o dstpath
  IN {i \in 2..Len(out) : out[i].path = dst \/ IsStrictPrefix(dst, out[i].path)}

\* The pairs of descriptions of record's externals that externals.Diff
\* reports as changed.
ChangedExternals(record, repo) ==
  LET changed == Diff(repo.prev_ext, NewExternals(record, repo), FALSE).changed
  IN {changed[i] : i \in 1..Len(changed)}

\* C14 as stated: a changed external whose old description has an unknown
\* revision is skipped, no record is synthesized for it.
C14_AsStated ==
  \A repo \in repo_answers : \A record \in Internalized(repo) :
    \A ch \in ChangedExternals(record, repo) :
      ch[1].srcrev = NoRev => SynthesizedFor(record, ch[1].dstpath, repo) = {}

\* C14: a changed external whose old description has an unknown revision is
\* turned into a delete and an add, so a delete record of its path is
\* synthesized; the external that is skipped, with no record synthesized, is
\* the changed one whose new description has an unknown revision while the
\* old revision is known and the new description is not an included path of
\* the repository being filtered.
C14_UnknownRevision ==
  \A repo \in repo_answers : \A record \in Internalized(repo) :
    \A ch \in ChangedExternals(record, repo) :
      LET out == InternalizeExternals(opts.includes, record, repo)
          dst == record.path \o ch[1].dstpath
      IN /\ ch[1].srcrev = NoRev =>
              \E i \in SynthesizedFor(record, ch[1].dstpath, repo) :
                 /\ out[i].action = "delete"
                 /\ out[i].path = dst
                 /\ out[i].source = EXTERNALS
         /\ ch[1].srcrev # NoRev /\ ch[2].srcrev = NoRev
              /\ ~(ch[2].srcrepo = MainRepo
                    /\ IsIncluded(opts.includes, ch[2].srcpath))
            => SynthesizedFor(record, ch[1].dstpath, repo) = {}

\* A record has been internalized whose changed external had an unknown old
\* revision, and another one whose new revision is unknown.
C14_Witness ==
  /\ \E repo \in repo_answers : \E record \in Internalized(repo) :
       \E ch \in ChangedExternals(record, repo) : ch[1].srcrev = NoRev
  /\ \E repo \in repo_answers : \E record \in Internalized(repo) :
       \E ch \in ChangedExternals(record, repo) :
         ch[1].srcrev # NoRev /\ ch[2].srcrev = NoRev

---------------------------------------------------------------------------
(* C15: _FindExternalPath and the longest prefix.                          *)

\* The items of the map whose prefix maps the URL.
Matching(url, externals_map) ==
  {i \in 1..Len(externals_map) : Maps(url, externals_map[i].prefix)}

\* The item among them with the longest prefix.
Longest(url, externals_map) ==
  CHOOSE i \in Matching(url, externals_map) :
    \A j \in Matching(url, externals_map) :
      Len(externals_map[j].prefix) <= Len(externals_map[i].prefix)

\* The map with its items in the opposite order.
Reversed(externals_map) ==
  [i \in 1..Len(externals_map) |-> externals_map[Len(externals_map) + 1 - i]]

\* C15: _FindExternalPath maps the URL to the item with the longest prefix
\* that equals it or that a '/' follows in it, and returns that item's repo
\* and the rest of the URL; the result does not depend on the order of the
\* map; a URL that no prefix maps raises UnknownRepo.
C15_LongestPrefix ==
  fe_called =>
    /\ IF Matching(fe_url, fe_map) = {} THEN fe_out.status = UnknownRepo
       ELSE fe_out = FoundAt(fe_url, fe_map[Longest(fe_url, fe_map)])
    /\ fe_out = FindExternalPath(fe_url, Reversed(fe_map))

---------------------------------------------------------------------------
(* C16: what a failing revision leaves in the output.                      *)

\* The revision loop has been left by an exception while a revision was
\* being processed.
RevisionFailed == pc = "failed" /\ rev_in # NoRecord

\* Every revision written so far was written completely: its header and all
\* the Records _FilterRev returned for it.
EarlierComplete ==
  RevisionDone /\ written # <<>> =>
    /\ Len(written) = Len(filtered) + 1
    /\ written[1].hasrev

\* C16 as stated: if processing a revision fails (an unsupported action
\* pair, a failure of the repository adapter, a malformed record, a failure
\* while it is being written), nothing of that revision has been written,
\* not even its header, and every earlier revision was written completely.
C16_AsStated ==
  /\ RevisionFailed => written = <<>>
  /\ EarlierComplete

\* C16: if processing a revision fails before it is written (an unsupported
\* action pair, a failure of the repository adapter, a malformed record),
\* nothing of that revision has been written; if a Write fails (KeyError
\* from the revmap), the revision's header and the Records before the
\* failing one have been written, the failing one and those after it have
\* not; every earlier revision was written completely.
C16_FailureLeaves ==
  /\ RevisionFailed /\ error # "KeyError" => written = <<>>
  /\ RevisionFailed /\ error = "KeyError" =>
       /\ 1 <= Len(written) /\ Len(written) <= Len(filtered)
       /\ written[1].hasrev
       /\ RemapFails(filtered[Len(written)], revmap)
       /\ \A i \in 2..Len(written) : written[i] = Write(filtered[i - 1], revmap)
  /\ EarlierComplete

\* A revision failed while it was being written, after its header and one
\* of its Records had been written.
C16_Witness ==
  RevisionFailed /\ error = "KeyError" /\ Len(written) = 2

---------------------------------------------------------------------------
(* C17 and C18: a delete and an add on one path.                           *)

\* The list without the object x.
Without(list, x) == LET Other(y) == y # x IN SelectSeq(list, Other)

\* A Flatten step that returns has worked on the pair of actions pair.
FlattenedPair(pair) ==
  /\ flat.status = Running
  /\ flat'.status = Running
  /\ flat' # flat
  /\ <<FirstOf(flat, flat'.cur).action, SecondOf(flat, flat'.cur).action>> = pair

\* C17: a delete followed by an add on one path becomes one Record, the add
\* with the action replace and everything else of it kept, where the add
\* was; the delete leaves the path's list and the revision's list.
C17_DeleteAddIsReplace ==
  [][ FlattenedPair(<<"delete", "add">>) =>
        LET p == flat'.cur
            delete == flat.groups[p][1]
            add == flat.groups[p][2]
        IN /\ flat'.objs = [flat.objs EXCEPT ![add].action = "replace"]
           /\ flat'.groups = [flat.groups EXCEPT ![p] = Tail(@)]
           /\ flat'.contents = Without(flat.contents, delete) ]_vars

\* A delete and an add with a text and properties have become a replace;
\* the list holds one other Record.
C17_Witness ==
  /\ flat.last = "ConvertDeleteAndAddIntoReplace"
  /\ Len(flat.contents) = 2
  /\ \E i \in 1..2 :
       /\ flat.objs[flat.contents[i]].action = "replace"
       /\ flat.objs[flat.contents[i]].text # None
       /\ flat.objs[flat.contents[i]].hasprops

\* The add of a pair comes from an external and its delete from the dump.
ExternalReplacesPath(first, second) ==
  first.source = EXTERNALS /\ second.source = DUMP

---------------------------------------------------------------------------
(* C19: what svndumpgrab emits.                                            *)

\* The revision the i-th record of the input belongs to: the number of the
\* last header at or before it, NoRev before the first header.
RECURSIVE RevisionOf(_, _)
RevisionOf(input, i) ==
  IF i = 0 THEN NoRev
  ELSE IF input[i].rev THEN input[i].revno
  ELSE RevisionOf(input, i - 1)

\* The number of node records of its own revision that precede the i-th
\* record, a node record.
RECURSIVE Preceding(_, _)
Preceding(input, i) ==
  IF i = 1 \/ input[i - 1].rev THEN 0 ELSE 1 + Preceding(input, i - 1)

\* The headers and node records of the revisions in S among the first n
\* records of the input, in their order, each node record with its
\* Record-index.
RECURSIVE Extract(_, _, _)
Extract(input, n, S) ==
  IF n = 0 THEN <<>>
  ELSE Extract(input, n - 1, S) \o
       (IF RevisionOf(input, n) \notin S THEN <<>>
        ELSE IF input[n].rev THEN <<input[n]>>
        ELSE <<[input[n] EXCEPT !.index = Preceding(input, n)]>>)

\* C19: given a set S of revisions and an input whose revision numbers
\* ascend, svndumpgrab writes exactly the revision headers and the node
\* records of the revisions in S, in the order of the input, each node
\* record with a Record-index that counts the node records of its revision
\* before it from 0; the records before the first revision header are not
\* written.
C19_EmitsRevisionsOfS ==
  gr_pc \in {"loop", "done"} /\ gr_arg # <<>> =>
    LET S == StringToIntSet(gr_arg) IN
    /\ gr_out = Extract(gr_input, gr_pos, S)
    /\ gr_pc = "done" => gr_out = Extract(gr_input, Len(gr_input), S)

\* svndumpgrab has left its loop at a revision header past the greatest
\* revision asked for, on an input that began with a node record, after it
\* wrote two node records of one revision.
C19_Witness ==
  /\ gr_pc = "done"
  /\ gr_arg # <<>>
  /\ gr_pos > 1
  /\ ~gr_input[1].rev
  /\ gr_input[gr_pos].rev
  /\ gr_input[gr_pos].revno > MaxRev(GrabRevs(gr_arg))
  /\ \E i \in 1..Len(gr_out) : gr_out[i].index = 1
---------------------------------------------------------------------------
(* C20: _FilterRecord on a Record without copy headers.                    *)

\* C20: for a Record of the dump without copy headers _FilterRecord returns
\* nothing on an excluded path; on a parent of an included path nothing for
\* a change, for an add or replace of a file a new directory Record with the
\* path and the action and neither properties nor text, for an add or
\* replace of a directory the Record without its property block, and a
\* delete as it is; on an included path, with no externals map, the Record
\* as it is.
C20_FilterRecordByVerdict ==
  fr_called /\ ~fr_record.hascopy =>
    LET interest == CheckPath(fr_opts.includes, fr_record.path)
        r == fr_record
    IN /\ interest = NO => fr_out = <<>>
       /\ interest = PARENT /\ r.action = "change" => fr_out = <<>>
       /\ interest = PARENT /\ r.action \in {"add", "replace"}
            /\ r.kind = "file" =>
            /\ Len(fr_out) = 1
            /\ fr_out[1].path = r.path
            /\ fr_out[1].action = r.action
            /\ fr_out[1].kind = "dir"
            /\ ~fr_out[1].hasprops
            /\ fr_out[1].text = None
            /\ fr_out[1] = Record(r.path, r.action, "dir", DUMP)
       /\ interest = PARENT /\ r.action \in {"add", "replace"}
            /\ r.kind = "dir" =>
            fr_out = <<[r EXCEPT !.hasprops = FALSE, !.props = NoEntries]>>
       /\ interest = PARENT /\ r.action = "delete" => fr_out = <<r>>
       /\ interest = YES /\ ~fr_opts.externals_map => fr_out = <<r>>

\* _FilterRecord has been called with an externals map on the add of a
\* directory that sets svn:externals, at a path that is a parent of an
\* included one.
C20_Witness ==
  /\ fr_called
  /\ fr_opts.externals_map
  /\ CheckPath(fr_opts.includes, fr_record.path) = PARENT
  /\ fr_record.action = "add"
  /\ fr_record.kind = "dir"
  /\ "svn:externals" \in DOMAIN fr_record.props
  /\ Len(fr_out) = 1

---------------------------------------------------------------------------
(* C21, C22 and C29: a change merged into the Record before it.            *)

\* A Flatten step has merged a change into an add, change or replace and
\* returned.
MergedChange ==
  /\ flat.status = Running
  /\ flat'.status = Running
  /\ flat' # flat
  /\ FirstOf(flat, flat'.cur).action \in {"add", "change", "replace"}
  /\ SecondOf(flat, flat'.cur).action = "change"

\* The Record that is left of the pair after the step.
Survivor == flat'.objs[flat'.groups[flat'.cur][1]]

\* The entries of first overlaid with those of second, key by key.
Overlaid(first, second) ==
  [n \in DOMAIN first.props \cup DOMAIN second.props |->
     IF n \in DOMAIN second.props THEN second.props[n] ELSE first.props[n]]

\* The entries of props whose value is not the tombstone.
Materialized(props) ==
  [n \in {m \in DOMAIN props : props[m] # Tomb} |-> props[n]]

\* C21: a change with a property block merged into an earlier add, change or
\* replace: an earlier Record without a block takes the change's block
\* whole; else a change with Prop-delta: true is overlaid key by key, and
\* the keys whose value is the tombstone are removed unless the earlier
\* Record has Prop-delta: true itself; else the change's block replaces the
\* earlier one.  A change without a block leaves the properties as they
\* were.  The Record that is left keeps the earlier action.
C21_MergedProperties ==
  [][ MergedChange =>
        LET first == FirstOf(flat, flat'.cur)
            second == SecondOf(flat, flat'.cur)
        IN /\ Survivor.action = first.action
           /\ Survivor.pdelta = first.pdelta
           /\ ~second.hasprops =>
                /\ Survivor.hasprops = first.hasprops
                /\ Survivor.props = first.props
           /\ second.hasprops => Survivor.hasprops
           /\ second.hasprops /\ ~first.hasprops =>
                Survivor.props = second.props
           /\ second.hasprops /\ first.hasprops /\ second.pdelta = "true" =>
                Survivor.props =
                  IF first.pdelta = "true" THEN Overlaid(first, second)
                  ELSE Materialized(Overlaid(first, second))
           /\ second.hasprops /\ first.hasprops /\ second.pdelta # "true" =>
                Survivor.props = second.props ]_vars

\* A change that deletes the property p with Prop-delta: true has been
\* merged into an add that set it: the add is left with an empty block.
C21_Witness ==
  /\ flat.last = "MergeChange"
  /\ flat.status = Running
  /\ Len(flat_in) = 2
  /\ flat_in[1].action = "add" /\ flat_in[1].props = Props1
  /\ flat_in[2].pdelta = "true" /\ flat_in[2].props = PropsDel
  /\ Len(flat.contents) = 1
  /\ flat.objs[flat.contents[1]].hasprops
  /\ flat.objs[flat.contents[1]].props = NoEntries

\* C22: a change with a text merged into an earlier add, change or replace
\* raises UnsupportedActionPair if the change has Text-delta: true; else the
\* Record that is left takes the change's text, its Text-content-md5 is the
\* change's, or absent if the change has none, and it has no Text-delta.  A
\* change without a text leaves text and checksum as they were.
C22_MergedText ==
  [][ /\ flat.status = Running
      /\ flat' # flat
      /\ flat'.status # Returned
      /\ FirstOf(flat, flat'.cur).action \in {"add", "change", "replace"}
      /\ SecondOf(flat, flat'.cur).action = "change"
      => LET first == FirstOf(flat, flat'.cur)
             second == SecondOf(flat, flat'.cur)
         IN IF second.text # None /\ second.tdelta = "true"
            THEN flat'.status = UnsupportedActionPair
            ELSE /\ flat'.status = Running
                 /\ second.text # None =>
                      /\ Survivor.text = second.text
                      /\ Survivor.md5 = second.md5
                      /\ Survivor.tdelta = Absent
                 /\ second.text = None =>
                      /\ Survivor.text = first.text
                      /\ Survivor.md5 = first.md5
                      /\ Survivor.tdelta = first.tdelta ]_vars

\* A change with the text t2 and no checksum has been merged into an add
\* with the text t1 and its checksum: the add is left with t2 and without
\* Text-content-md5.
C22_Witness ==
  /\ flat.last = "MergeChange"
  /\ flat.status = Running
  /\ Len(flat_in) = 2
  /\ flat_in[1].action = "add" /\ flat_in[1].text = "t1"
  /\ flat_in[1].md5 = Md5("t1")
  /\ flat_in[2].text = "t2" /\ flat_in[2].md5 = Absent
  /\ Len(flat.contents) = 1
  /\ flat.objs[flat.contents[1]].text = "t2"
  /\ flat.objs[flat.contents[1]].md5 = Absent

\* C29: after a change with a text has been merged into an earlier Record,
\* each of Text-content-md5 and Text-content-sha1 of the Record that is left
\* is the one that came with the new text, or absent.
C29_NoStaleChecksum ==
  [][ MergedChange /\ SecondOf(flat, flat'.cur).text # None =>
        /\ Survivor.md5 \in {SecondOf(flat, flat'.cur).md5, Absent}
        /\ Survivor.sha1 \in {SecondOf(flat, flat'.cur).sha1, Absent} ]_vars
---------------------------------------------------------------------------
(* C26, C27 and C30: _FlattenMultipleActions as a whole.                   *)

\* C26: _FlattenMultipleActions terminates: it returns or raises.  Each
\* Flatten step raises, or takes at least one Record out of the path's
\* list, or makes an add and a delete change places, and then the very next
\* step works on the same path and takes a Record out of its list.
C26_Terminates ==
  /\ <>(flat.status # Running)
  /\ [][ flat.status = Running /\ flat' # flat /\ flat'.status = Running =>
           LET p == flat'.cur IN
           \/ Len(flat'.groups[p]) < Len(flat.groups[p])
           \/ /\ flat'.last = "MoveDeleteToBeforeAdd"
              /\ flat'.groups[p][1] = flat.groups[p][2]
              /\ flat'.groups[p][2] = flat.groups[p][1]
              /\ FirstOf(flat, p).action = "add"
              /\ SecondOf(flat, p).action = "delete" ]_vars
  /\ [][ flat.status = Running /\ flat.last = "MoveDeleteToBeforeAdd"
         /\ flat' # flat =>
           /\ flat'.status = Running
           /\ flat'.cur = flat.cur
           /\ flat'.last = "ConvertDeleteAndAddIntoReplace"
           /\ Len(flat'.groups[flat.cur]) < Len(flat.groups[flat.cur]) ]_vars

\* A list of three Records on one path has been worked off in three steps,
\* the first of which made an add and a delete change places.
C26_Witness ==
  /\ flat.status = Returned
  /\ Len(flat_in) = MaxFlat
  /\ \A i \in 1..Len(flat_in) : flat_in[i].path = pA
  /\ pA \in flat.moved
  /\ flat.last = "MergeChange"

\* The positions of the input list whose Record has Node-path p.
InputPositions(p) == {i \in 1..Len(flat_in) : flat_in[i].path = p}

\* The input list holds two Records for p: an add from an external, then a
\* delete from the dump.
ExternalAddThenDelete(p) ==
  /\ Cardinality(InputPositions(p)) = 2
  /\ \E i, j \in InputPositions(p) :
       /\ i < j
       /\ flat_in[i].action = "add" /\ flat_in[i].source = EXTERNALS
       /\ flat_in[j].action = "delete" /\ flat_in[j].source = DUMP

\* C27: an add from an external followed by a delete from the dump, the only
\* two Records of their path: no step on the path raises, and when
\* _FlattenMultipleActions returns the path has one Record, the add with
\* the action replace and everything else of it kept, with the Records
\* that were before the add before it and those that were after it after;
\* the delete is gone.
C27_ExternalAddDeleteIsReplace ==
  \A p \in {r.path : r \in FlatRecords} :
    ExternalAddThenDelete(p) =>
      LET add == First(InputPositions(p)) IN
      /\ flat.status \notin {Running, Returned} => flat.cur # p
      /\ flat.status = Returned =>
           /\ Cardinality(PositionsOf(flat, p)) = 1
           /\ \A k \in PositionsOf(flat, p) :
                /\ flat.contents[k] = add
                /\ \A m \in 1..Len(flat.contents) :
                     (m < k) <=> (flat.contents[m] < add)
           /\ flat.objs[add] = [flat_in[add] EXCEPT !.action = "replace"]

\* A Record of another path, an add from an external with a text and
\* properties, and a delete from the dump: the replace is second of two.
C27_Witness ==
  /\ flat.status = Returned
  /\ Len(flat_in) = 3
  /\ flat_in[1].path = pB
  /\ ExternalAddThenDelete(pA)
  /\ flat_in[2].text # None /\ flat_in[2].props = Props1
  /\ Len(flat.contents) = 2
  /\ flat.objs[flat.contents[2]].action = "replace"
  /\ flat.objs[flat.contents[2]].text = flat_in[2].text
  /\ flat.objs[flat.contents[2]].props = Props1

\* C30: _FlattenMultipleActions adds no Record to the revision's list: the
\* list holds Records of the input, each at most once.  A Record whose path
\* occurs once in the input is in the list, as it was.  When it returns, the
\* Records left are in the order they had in the input.
C30_Frame ==
  /\ \A k \in 1..Len(flat.contents) : flat.contents[k] \in 1..Len(flat_in)
  /\ \A k, m \in 1..Len(flat.contents) :
       flat.contents[k] = flat.contents[m] => k = m
  /\ Len(flat.objs) = Len(flat_in)
  /\ \A i \in 1..Len(flat_in) :
       Cardinality(InputPositions(flat_in[i].path)) = 1 =>
         /\ flat.objs[i] = flat_in[i]
         /\ \E k \in 1..Len(flat.contents) : flat.contents[k] = i
  /\ flat.status = Returned =>
       \A k, m \in 1..Len(flat.contents) :
         k < m => flat.contents[k] < flat.contents[m]

\* An add from an external, a Record of another path and a delete from the
\* dump: the replace and the other Record are left, in this order.
C30_Witness ==
  /\ flat.status = Returned
  /\ Len(flat_in) = 3
  /\ flat_in[2].path = pB
  /\ pA \in flat.moved
  /\ flat.contents = <<1, 2>>
  /\ flat.objs[1].action = "replace"
  /\ flat.objs[2] = flat_in[2]
---------------------------------------------------------------------------
(* C23: Record.DoesNotAffectExternals.                                     *)

\* C23: DoesNotAffectExternals is False exactly for a Record that is no
\* delete, is a directory, has a property block, and either has
\* svn:externals among the keys of the block, with a value or as a
\* tombstone, or is no add and has no Prop-delta: true; it is True for
\* every other Record.  On an included path _FilterRecord returns a Record
\* it is True for, and that is no copy, as it is.
C23_DoesNotAffectExternals ==
  fr_called =>
    LET r == fr_record
        affects ==
          /\ r.action # "delete"
          /\ r.kind = "dir"
          /\ r.hasprops
          /\ \/ "svn:externals" \in DOMAIN r.props
             \/ r.action # "add" /\ r.pdelta # "true"
    IN /\ DoesNotAffectExternals(r) = ~affects
       /\ ~affects /\ ~r.hascopy
            /\ CheckPath(fr_opts.includes, r.path) = YES =>
            fr_out = <<r>>

\* _FilterRecord has been called with an externals map on the change of a
\* directory at an included path whose property block is a delta without
\* svn:externals, and has returned the Record as it is.
C23_Witness ==
  /\ fr_called
  /\ fr_opts.externals_map
  /\ CheckPath(fr_opts.includes, fr_record.path) = YES
  /\ fr_record.action = "change"
  /\ fr_record.kind = "dir"
  /\ fr_record.hasprops
  /\ fr_record.pdelta = "true"
  /\ fr_record.props = Props1
  /\ fr_repo.new_ext # NoExternals
  /\ fr_out = <<fr_record>>
---------------------------------------------------------------------------
(* C24: the Records _ApplyExternalsChange makes.                           *)

\* _FilterRecord has been called on a directory at an included path that
\* sets svn:externals, and the one external has moved from one revision of
\* another repository to a later one: what follows the Record in the
\* output is what _ApplyExternalsChange returned.
ExternalChanged ==
  /\ fr_called
  /\ fr_opts.externals_map
  /\ CheckPath(fr_opts.includes, fr_record.path) = YES
  /\ ~DoesNotAffectExternals(fr_record)
  /\ NewExternals(fr_record, fr_repo) = External(OtherRepo, 2, pB)
  /\ fr_repo.prev_ext = External(OtherRepo, 1, pB)

\* The positions of list whose Record has the Node-path path.
RecordsAt(list, path) == {k \in 1..Len(list) : list[k].path = path}

\* C24: for the children the diff reports _ApplyExternalsChange makes one
\* delete per deleted child, all of them before any other Record; an add
\* with properties and text for an added child; a change with the text for
\* a child whose contents were modified, without properties if they did not
\* change; a change with properties and without text for a child of which
\* only the properties changed; nothing for a child the diff does not list.
C24_AsStated ==
  ExternalChanged =>
    LET base == fr_record.path \o <<"b">>
        out == Tail(fr_out)
        diff == fr_repo.diff
        tree == fr_repo.tree
    IN /\ fr_out[1] = fr_record
       /\ \A child \in DOMAIN diff :
            diff[child][1] = "delete" =>
              /\ Cardinality(RecordsAt(out, base \o child)) = 1
              /\ \A k \in RecordsAt(out, base \o child) :
                   /\ out[k].action = "delete"
                   /\ \A m \in 1..k : out[m].action = "delete"
       /\ \A i \in 1..Len(tree) :
            LET n == tree[i]
                at == RecordsAt(out, base \o n.rel)
            IN IF n.rel \notin DOMAIN diff THEN at = {}
               ELSE /\ Cardinality(at) = 1
                    /\ \A k \in at :
                         LET r == out[k]
                             contents_op == diff[n.rel][1]
                             props_op == diff[n.rel][2]
                         IN /\ contents_op = "add" =>
                                 /\ r.action = "add"
                                 /\ r.hasprops /\ r.props = n.props
                                 /\ r.text = n.text
                            /\ contents_op = "modify" =>
                                 /\ r.action = "change"
                                 /\ r.text = n.text
                                 /\ props_op = NoOp => ~r.hasprops
                                 /\ props_op = "modify" =>
                                      r.hasprops /\ r.props = n.props
                            /\ contents_op = NoOp /\ props_op = "modify" =>
                                 /\ r.action = "change"
                                 /\ r.hasprops /\ r.props = n.props
                                 /\ r.text = None
---------------------------------------------------------------------------
(* C25: a dereferenced copy that has a text.                               *)

\* _FilterRecord has been called on a copy into an included path from a
\* path that is not included: _FixCopyFrom dereferences it.
CopyDereferenced ==
  /\ fr_called
  /\ fr_record.hascopy
  /\ IsIncluded(fr_opts.includes, fr_record.path)
  /\ ~IsIncluded(fr_opts.includes, fr_record.cfpath)

\* C25: a copy that is dereferenced and has a text: the output is the
\* Records that add the copied tree, one per node and in its order, and
\* then, last, the copy itself as a change without Node-copyfrom-rev,
\* Node-copyfrom-path, Text-copy-source-md5 and Text-copy-source-sha1, and
\* with its text.  Without a text the output is the adds alone.
C25_DereferencedCopy ==
  CopyDereferenced =>
    LET tree == fr_repo.tree
        adds == SubSeq(fr_out, 1, Len(tree))
    IN /\ Len(fr_out) = Len(tree) + (IF fr_record.text = None THEN 0 ELSE 1)
       /\ \A k \in 1..Len(tree) :
            /\ adds[k].action = "add"
            /\ adds[k].source = COPY
            /\ ~adds[k].hascopy
            /\ adds[k].path = fr_record.path \o tree[k].rel
            /\ adds[k].kind = tree[k].kind
            /\ adds[k].text = tree[k].text
            /\ adds[k].props = tree[k].props
       /\ fr_record.text # None =>
            LET last == fr_out[Len(fr_out)] IN
            /\ last.action = "change"
            /\ ~last.hascopy
            /\ last.csmd5 = Absent
            /\ last.cssha1 = Absent
            /\ last.text = fr_record.text
            /\ last = [fr_record EXCEPT !.action = "change", !.hascopy = FALSE,
                                        !.cfpath = last.cfpath,
                                        !.cfrev = last.cfrev,
                                        !.csmd5 = Absent, !.cssha1 = Absent]

\* The copy of a file with a text of its own and both checksums of its
\* source has been dereferenced: an add of the source's text, then the
\* change.
C25_Witness ==
  /\ CopyDereferenced
  /\ fr_record.text = "t2"
  /\ fr_record.csmd5 # Absent /\ fr_record.cssha1 # Absent
  /\ fr_repo.tree = TreeFile
  /\ Len(fr_out) = 2
  /\ fr_out[1].action = "add" /\ fr_out[1].text = "t1"
  /\ fr_out[2].action = "change" /\ fr_out[2].text = "t2"
---------------------------------------------------------------------------
(* C28: copy sources under --drop-empty-revs and --renumber-revs.          *)

\* An iteration of the revision loop completes on the revision r of a
\* history read from revision 0 on without a gap, empty revisions being
\* dropped and the others renumbered.
RenumbersComplete ==
  /\ pc = "revs"
  /\ pc' \in {"revs", "done"}
  /\ opts.drop_empty_revs
  /\ revmap.given
  /\ DOMAIN revmap'.map = 0..revhdr.revno

\* C28: the revmap does not decrease with the input revision number.  When
\* a revision r of a complete history is done, the revmap holds for r the
\* output number of the latest revision written at or before r: the number
\* written in r's own header, or, r being dropped, what it holds for r - 1
\* (0 when r is the first).  Each Node-copyfrom-rev written for r whose
\* input value s is lower than r is what the revmap holds for s, and is
\* lower than the Revision-number written for r.
C28_RenumberedCopySources ==
  /\ [](\A a, b \in DOMAIN revmap.map : a < b => revmap.map[a] <= revmap.map[b])
  /\ [][ RenumbersComplete =>
           LET r == revhdr.revno
               before == IF r = 0 THEN 0 ELSE revmap.map[r - 1]
           IN /\ revmap'.map[r] =
                   IF written' # <<>> THEN written'[1].revno ELSE before
              /\ written' # <<>> =>
                   \A i \in 1..Len(filtered') :
                     filtered'[i].hascopy /\ filtered'[i].cfrev < r =>
                       /\ written'[i + 1].hascopy
                       /\ written'[i + 1].cfrev = revmap.map[filtered'[i].cfrev]
                       /\ written'[i + 1].cfrev < written'[1].revno ]_vars

\* Revision 0 was written as 1; revision 1, a copy from revision 0, has
\* been written as 2 with the copy's source renumbered to 1.
C28_Witness ==
  /\ RevisionDone
  /\ opts.drop_empty_revs /\ revmap.given
  /\ rev_in.revno = 1
  /\ DOMAIN revmap.map = {0, 1}
  /\ Len(filtered) = 1 /\ filtered[1].hascopy /\ filtered[1].cfrev = 0
  /\ Len(written) = 2
  /\ written[1].revno = 2
  /\ written[2].cfrev = 1
====
